---- MODULE Spec2Model ----
(***************************************************************************)
(* A model of the REFLEX inbound core (xray-core/proxy/reflex):            *)
(*   - the frame codec and session (session.go),                           *)
(*   - the traffic profile engine (morph.go),                              *)
(*   - the peek demultiplexer of Handler.Process (inbound, reflex.go).     *)
(* Short byte strings (length prefixes, nonces, peeked text) are sequences  *)
(* of integers 0..255.  Payloads and plaintexts, which reach 65535 bytes,  *)
(* are held run-length encoded: a sequence of runs [n, v], n > 0 copies of *)
(* byte v, adjacent runs of different bytes, so that two encodings are     *)
(* equal exactly when the byte strings are.  An AEAD ciphertext is held as *)
(* a sealed box that remembers the key, the nonce and the plaintext it was *)
(* sealed from and occupies BLen(plaintext) + Overhead bytes of the        *)
(* stream; it opens only as a whole, under the same key and nonce.         *)
(***************************************************************************)
EXTENDS Integers, Sequences, FiniteSets, TLC

VARIABLES
    \* ---- reflex.Session (session.go:21-28)
    writeNonceCount,   \* s.writeNonceCount
    readNonceCount,    \* s.readNonceCount: last accepted read counter
    readSeen,          \* s.readSeen: true after the first accepted frame
    \* ---- the callers of WriteFrame and the io.Writer they share
    wpc,               \* per writer: where it is inside WriteFrame
    wloc,              \* per writer: WriteFrame's locals
    wire,              \* what has been written to w, in order (segments)
    calls,             \* history: one record per WriteFrame call
    overlapped,        \* history: some WriteFrame began while another ran
    \* ---- the callers of ReadFrame
    rpos,              \* byte offset of the stream reader in wire
    rdead,             \* the stream reader got an error and stopped
    got,               \* history: what the stream reader's calls returned
    accepted,          \* history: the bytes of every frame accepted so far
    acc,               \* history: the counters accepted, in order
    last,              \* history: the latest ReadFrame call and its result
    nDeliver,          \* number of single-frame deliveries made so far
    \* ---- reflex.TrafficProfile (morph.go:15-22)
    PacketSizes,       \* p.PacketSizes: buckets [Size, Weight]
    Delays,            \* p.Delays: buckets [Delay, Weight]
    nextPacketSize,    \* p.nextPacketSize: one-shot override, 0 when unset
    nextDelay,         \* p.nextDelay: one-shot override, 0 when unset
    hist,              \* history: the calls made on the profile, in order
    \* ---- AddPadding
    padCall,           \* the latest AddPadding call: data, targetSize, result
    \* ---- one accepted connection and Handler.Process on it (reflex.go)
    cstream,           \* the bytes the client writes, in all
    csent,             \* how many of them have reached the server
    cstate,            \* the client's side: "open", "eof" (closed), "reset"
    ppc,               \* where Process is
    peeked,            \* what reader.Peek returned to Process
    pret,              \* what Process returned: "" while running, "nil", or
                       \* the error
    psite,             \* the return statement Process left by, "" before
    \* ---- the Handler and what Process does past the peek (reflex.go)
    clients,           \* h.clients: the ids of the configured accounts
    fallback,          \* h.fallback: [nil, Dest]
    cframes,           \* what the client writes after cstream (segments)
    rdpos,             \* bytes Process has consumed from reader
    hs,                \* the ClientHandshake that was parsed
    serverPub,         \* the public key generateKeyPair returned
    wrote,             \* what has been written to conn, one entry a Write
    connClosed,        \* conn.Close() has been called
    session,           \* reflex.NewSession has returned a session
    \* ---- the fallback relay (reflex.go:534-573) and its target
    targetUp,          \* a server listens on 127.0.0.1:Dest
    tresp,             \* the bytes the target sends in reply, in all
    dialed,            \* stdnet.Dial has been called
    trecv,             \* the bytes written to target so far
    tsent,             \* how many bytes of tresp the target has sent
    tstate,            \* the target's side: "open" or "eof" (it closed)
    twclosed,          \* target.CloseWrite() has been called
    targetClosed,      \* target.Close() has been called
    p1,                \* the goroutine copying wrapped to target
    p2,                \* the goroutine copying target to wrapped
    p2pos,             \* how many bytes of tresp p2 has copied
    errc,              \* the channel errc, capacity 2
    pend,              \* history: what each io.Copy returned
    \* ---- the classifiers called on a buffer of their own
    cls,               \* the buffer and what the classifiers returned
    \* ---- the routing.Dispatcher handed to Process (reflex.go:155)
    dispatcher,        \* [nil]: whether Process was given a nil dispatcher
    links,             \* history: one record per dispatcher.Dispatch call
    \* ---- goroutines that call one TrafficProfile at once (morph.go)
    mu,                \* p.mu: the goroutine that holds it, "" when free
    gor                \* per goroutine: the call it is in and its locals

sessVars == <<writeNonceCount, readNonceCount, readSeen, wpc, wloc, wire,
              calls, overlapped, rpos, rdead, got, accepted, acc, last,
              nDeliver>>

profVars == <<PacketSizes, Delays, nextPacketSize, nextDelay, hist>>

relayVars == <<targetUp, tresp, dialed, trecv, tsent, tstate, twclosed,
               targetClosed, p1, p2, p2pos, errc, pend>>

procVars == <<clients, fallback, cframes, rdpos, hs, serverPub, wrote,
              connClosed, session, relayVars>>

connVars == <<cstream, csent, cstate, ppc, peeked, pret, psite, procVars>>

dispVars == <<dispatcher, links>>

lockVars == <<mu, gor>>

vars == <<sessVars, profVars, padCall, connVars, cls, dispVars, lockVars>>

----------------------------------------------------------------------------
(* Bounds of the model. *)

MaxFrames == 2
MaxDeliver == 2
MaxCalls == 3
MaxStream == 80

----------------------------------------------------------------------------
(* Bytes and fixed-width integers. *)

Min(a, b) == IF a <= b THEN a ELSE b
Max(a, b) == IF a >= b THEN a ELSE b

Zeros(n) == [i \in 1..n |-> 0]

RECURSIVE Norm(_)
\* the run-length encoding with empty runs dropped and equal neighbours merged
Norm(rs) ==
    IF Len(rs) = 0 THEN <<>>
    ELSE LET h == Norm(SubSeq(rs, 1, Len(rs) - 1))
             r == rs[Len(rs)]
         IN  IF r.n = 0 THEN h
             ELSE IF Len(h) > 0 /\ h[Len(h)].v = r.v
             THEN [h EXCEPT ![Len(h)].n = @ + r.n]
             ELSE Append(h, r)

\* the byte string of n copies of byte v
BFill(n, v) == IF n = 0 THEN <<>> ELSE <<[n |-> n, v |-> v]>>

\* []byte from a short sequence of bytes, and back
B(s) == Norm([i \in 1..Len(s) |-> [n |-> 1, v |-> s[i]]])

RECURSIVE Plain(_)
Plain(rs) ==
    IF Len(rs) = 0 THEN <<>>
    ELSE [i \in 1..rs[1].n |-> rs[1].v] \o Plain(Tail(rs))

RECURSIVE BLen(_)
\* len(b)
BLen(rs) == IF Len(rs) = 0 THEN 0 ELSE rs[1].n + BLen(Tail(rs))

\* append(a, b...)
BCat(a, b) == Norm(a \o b)

RECURSIVE BTake(_, _)
\* b[:k], for 0 <= k <= len(b)
BTake(rs, k) ==
    IF k = 0 \/ Len(rs) = 0 THEN <<>>
    ELSE IF rs[1].n >= k THEN <<[n |-> k, v |-> rs[1].v]>>
    ELSE <<rs[1]>> \o BTake(Tail(rs), k - rs[1].n)

RECURSIVE BDrop(_, _)
\* b[k:], for 0 <= k <= len(b)
BDrop(rs, k) ==
    IF k = 0 \/ Len(rs) = 0 THEN rs
    ELSE IF rs[1].n > k THEN <<[n |-> rs[1].n - k, v |-> rs[1].v]>> \o Tail(rs)
    ELSE BDrop(Tail(rs), k - rs[1].n)

RECURSIVE PutBE(_, _)
\* binary.BigEndian.PutUintN: the n low-order bytes of v, most significant first
PutBE(v, n) == IF n = 0 THEN <<>> ELSE Append(PutBE(v \div 256, n - 1), v % 256)

RECURSIVE GetBE(_)
\* binary.BigEndian.UintN: the value of a big-endian byte string
GetBE(b) ==
    IF Len(b) = 0 THEN 0
    ELSE GetBE(SubSeq(b, 1, Len(b) - 1)) * 256 + b[Len(b)]

PutUint16(v) == PutBE(v, 2)
PutUint64(v) == PutBE(v, 8)
Uint16(b) == GetBE(SubSeq(b, 1, 2))
Uint64(b) == GetBE(SubSeq(b, 1, 8))

\* the conversion uint16(x) of a non-negative int
ToUint16(x) == x % 65536

----------------------------------------------------------------------------
(* session.go: constants and the AEAD. *)

FrameTypeData == 0
FrameTypePaddingCtrl == 1
FrameTypeTimingCtrl == 2

NonceSize == 12
Overhead == 16

SessionKey == "k"

\* aead.Seal(nil, nonce, plaintext, nil)
Seal(key, nonce, plaintext) ==
    [k |-> "box", key |-> key, nonce |-> nonce, pt |-> plaintext]

\* plain bytes on a stream
Raw(b) == [k |-> "raw", b |-> b]

SegLen(s) == IF s.k = "raw" THEN Len(s.b) ELSE BLen(s.pt) + Overhead

RECURSIVE SegStart(_, _)
\* byte offset at which segment i of stream st begins
SegStart(st, i) ==
    IF i = 1 THEN 0 ELSE SegStart(st, i - 1) + SegLen(st[i - 1])

StreamLen(st) == SegStart(st, Len(st) + 1)

\* the n > 0 bytes of st from offset a on, as pieces of the segments they
\* come from
Pieces(st, a, n) ==
    LET b == a + n
        idx == {i \in DOMAIN st :
                   SegStart(st, i) < b /\ SegStart(st, i) + SegLen(st[i]) > a}
        lo == CHOOSE i \in idx : \A j \in idx : i <= j
    IN  [p \in 1..Cardinality(idx) |->
            LET i == lo + p - 1
                s0 == SegStart(st, i)
            IN  [seg |-> st[i],
                 from |-> Max(a, s0) - s0,
                 to |-> Min(b, s0 + SegLen(st[i])) - s0]]

IsRaw(ps) == \A p \in DOMAIN ps : ps[p].seg.k = "raw"

RECURSIVE RawBytes(_)
\* the bytes of pieces that are all plain
RawBytes(ps) ==
    IF Len(ps) = 0 THEN <<>>
    ELSE RawBytes(SubSeq(ps, 1, Len(ps) - 1))
         \o SubSeq(ps[Len(ps)].seg.b, ps[Len(ps)].from + 1, ps[Len(ps)].to)

\* aead.Open(nil, nonce, ciphertext, nil): [ok, pt]; ok is FALSE when
\* authentication fails.  nonce and ciphertext are pieces of a stream: only
\* a whole box opens, under the key and the nonce it was sealed with.
Open(key, noncePs, ctPs) ==
    IF /\ IsRaw(noncePs)
       /\ Len(ctPs) = 1
       /\ ctPs[1].seg.k = "box"
       /\ ctPs[1].from = 0
       /\ ctPs[1].to = SegLen(ctPs[1].seg)
       /\ ctPs[1].seg.key = key
       /\ ctPs[1].seg.nonce = RawBytes(noncePs)
    THEN [ok |-> TRUE, pt |-> ctPs[1].seg.pt]
    ELSE [ok |-> FALSE, pt |-> <<>>]

----------------------------------------------------------------------------
(* session.go: WriteFrame. *)

Writers == {"w1", "w2"}

\* the increment left out
NextCountLost(c) == c

\* s.writeNonceCount++ on a uint64
NextCount(c) == Uint64(PutUint64(c + 1))

\* makeNonce: 4 bytes left as they are, then the 8-byte big-endian counter
makeNonce(nonceOut, counter) ==
    IF Len(nonceOut) < 12 THEN nonceOut
    ELSE SubSeq(nonceOut, 1, 4) \o PutUint64(counter)
         \o SubSeq(nonceOut, 13, Len(nonceOut))

\* the payloads and frame types callers pass to WriteFrame
FrameInputs ==
    { [Type |-> FrameTypeData, Payload |-> B(<<104, 105>>)],
      [Type |-> FrameTypePaddingCtrl, Payload |-> <<>>],
      [Type |-> 255, Payload |-> BFill(65506, 0)],
      [Type |-> FrameTypeData, Payload |-> BFill(65507, 0)],
      [Type |-> FrameTypeData, Payload |-> BFill(65535, 7)] }

IdleLoc == [header |-> <<>>, nonce |-> <<>>, ciphertext |-> Raw(<<>>), call |-> 0]

\* session.go:53-69: the locked counter step, then the frame is built
WriteFrameBegin(w, frameType, payload) ==
    /\ wpc[w] = "idle"
    /\ Len(calls) < MaxFrames
    /\ LET nonceCount == writeNonceCount
           plaintext == BCat(B(<<frameType>>), payload)
           nonce == makeNonce(Zeros(NonceSize), nonceCount)
           ciphertext == Seal(SessionKey, nonce, plaintext)
           totalLen == Len(nonce) + SegLen(ciphertext)
           header == PutUint16(ToUint16(totalLen))
       IN  /\ writeNonceCount' = NextCount(writeNonceCount)
           /\ wloc' = [wloc EXCEPT ![w] =
                          [header |-> header, nonce |-> nonce,
                           ciphertext |-> ciphertext, call |-> Len(calls) + 1]]
           /\ calls' = Append(calls,
                          [w |-> w, Type |-> frameType, Payload |-> payload,
                           header |-> header, nonce |-> nonce,
                           ciphertext |-> ciphertext, done |-> FALSE,
                           before |-> {i \in DOMAIN calls : calls[i].done}])
    /\ overlapped' = (overlapped \/ \E v \in Writers : wpc[v] # "idle")
    /\ wpc' = [wpc EXCEPT ![w] = "header"]
    /\ UNCHANGED <<readNonceCount, readSeen, wire, rpos, rdead, got,
                   accepted, acc, last, nDeliver, profVars, padCall, connVars, cls, dispVars, lockVars>>

\* session.go:70: w.Write(header)
WriteHeader(w) ==
    /\ wpc[w] = "header"
    /\ wire' = Append(wire, Raw(wloc[w].header))
    /\ wpc' = [wpc EXCEPT ![w] = "nonce"]
    /\ UNCHANGED <<writeNonceCount, readNonceCount, readSeen, wloc, calls,
                   overlapped, rpos, rdead, got, accepted, acc, last,
                   nDeliver, profVars, padCall, connVars, cls, dispVars, lockVars>>

\* session.go:73: w.Write(nonce)
WriteNonce(w) ==
    /\ wpc[w] = "nonce"
    /\ wire' = Append(wire, Raw(wloc[w].nonce))
    /\ wpc' = [wpc EXCEPT ![w] = "ciphertext"]
    /\ UNCHANGED <<writeNonceCount, readNonceCount, readSeen, wloc, calls,
                   overlapped, rpos, rdead, got, accepted, acc, last,
                   nDeliver, profVars, padCall, connVars, cls, dispVars, lockVars>>

\* session.go:76-77: w.Write(ciphertext), return
WriteCiphertext(w) ==
    /\ wpc[w] = "ciphertext"
    /\ wire' = Append(wire, wloc[w].ciphertext)
    /\ wpc' = [wpc EXCEPT ![w] = "idle"]
    /\ calls' = [calls EXCEPT ![wloc[w].call].done = TRUE]
    /\ wloc' = [wloc EXCEPT ![w] = IdleLoc]
    /\ UNCHANGED <<writeNonceCount, readNonceCount, readSeen, overlapped,
                   rpos, rdead, got, accepted, acc, last, nDeliver, profVars, padCall, connVars, cls, dispVars, lockVars>>

----------------------------------------------------------------------------
(* session.go: ReadFrame. *)

NoFrame == [Type |-> -1, Payload |-> <<>>]

ErrEOF == "EOF"
ErrUnexpectedEOF == "unexpected EOF"
ErrFrameTooShort == "reflex: frame too short"
ErrCiphertextTooShort == "reflex: ciphertext too short"
ErrAuth == "chacha20poly1305: message authentication failed"
ErrEmptyPlaintext == "reflex: empty plaintext"
ErrReplay == "reflex: replay detected"

\* io.ReadFull's error when only have < want bytes are left in the stream
ShortRead(have) == IF have = 0 THEN ErrEOF ELSE ErrUnexpectedEOF

\* a failed ReadFrame call that leaves readSeen set
ReadFailMarksSeen(err, short, n, seen, count) ==
    [err |-> err, short |-> short, frame |-> NoFrame, n |-> n,
     authentic |-> FALSE, counter |-> 0, bytes |-> <<>>,
     seen |-> TRUE, count |-> count]

\* a ReadFrame call that returns (nil, err); the read state is untouched
ReadFail(err, short, n, seen, count) ==
    [err |-> err, short |-> short, frame |-> NoFrame, n |-> n,
     authentic |-> FALSE, counter |-> 0, bytes |-> <<>>,
     seen |-> seen, count |-> count]

\* the test made with < for <=
IsReplayStrict(seen, count, readCounter) == seen /\ readCounter < count

\* the test made without the readSeen flag
IsReplayUnseeded(seen, count, readCounter) == readCounter <= count

\* session.go:122: the replay test on an authentic frame
IsReplay(seen, count, readCounter) == seen /\ readCounter <= count

\* session.go:87-134 on the stream st read from byte offset pos, with the
\* session's read state (seen, count).  The result holds the error ("" when
\* a frame is returned), whether the error is a short read, the frame, the
\* number of bytes consumed and the read state afterwards.
ReadFrame(st, pos, seen, count) ==
    LET avail == StreamLen(st) - pos IN
    IF avail < 2 THEN ReadFail(ShortRead(avail), TRUE, avail, seen, count)
    ELSE
    LET lenBuf == RawBytes(Pieces(st, pos, 2))
        totalLen == Uint16(lenBuf)
        cipherLen == totalLen - NonceSize
    IN
    IF totalLen < NonceSize
    THEN ReadFail(ErrFrameTooShort, FALSE, 2, seen, count)
    ELSE IF cipherLen < Overhead
    THEN ReadFail(ErrCiphertextTooShort, FALSE, 2, seen, count)
    ELSE IF avail - 2 < NonceSize
    THEN ReadFail(ShortRead(avail - 2), TRUE, avail, seen, count)
    ELSE IF avail - 2 - NonceSize < cipherLen
    THEN ReadFail(ShortRead(avail - 2 - NonceSize), TRUE, avail, seen, count)
    ELSE
    LET nonce == Pieces(st, pos + 2, NonceSize)
        ciphertext == Pieces(st, pos + 2 + NonceSize, cipherLen)
        opened == Open(SessionKey, nonce, ciphertext)
        plaintext == opened.pt
        n == 2 + totalLen
    IN
    IF ~opened.ok THEN ReadFail(ErrAuth, FALSE, n, seen, count)
    ELSE IF BLen(plaintext) < 1
    THEN ReadFail(ErrEmptyPlaintext, FALSE, n, seen, count)
    ELSE
    LET readCounter == Uint64(SubSeq(RawBytes(nonce), 5, 12))
        bytes == <<lenBuf, RawBytes(nonce), ciphertext[1].seg>>
    IN
    IF IsReplay(seen, count, readCounter)
    THEN [err |-> ErrReplay, short |-> FALSE, frame |-> NoFrame, n |-> n,
          authentic |-> TRUE, counter |-> readCounter, bytes |-> bytes,
          seen |-> seen, count |-> count]
    ELSE [err |-> "", short |-> FALSE,
          frame |-> [Type |-> Plain(BTake(plaintext, 1))[1],
                     Payload |-> BDrop(plaintext, 1)],
          n |-> n, authentic |-> TRUE, counter |-> readCounter,
          bytes |-> bytes, seen |-> TRUE, count |-> readCounter]

\* the two bytes of the length prefix are plain bytes
HeaderReadable(st, pos) ==
    StreamLen(st) - pos >= 2 => IsRaw(Pieces(st, pos, 2))

\* what a ReadFrame call with result res leaves in the session and in the
\* history
Returned(src, res) ==
    /\ readSeen' = res.seen
    /\ readNonceCount' = res.count
    /\ accepted' = IF res.err = "" THEN accepted \cup {res.bytes} ELSE accepted
    /\ acc' = IF res.err = "" THEN Append(acc, res.counter) ELSE acc
    /\ last' = [src |-> src, err |-> res.err, frame |-> res.frame,
                authentic |-> res.authentic, counter |-> res.counter,
                wasAccepted |-> res.bytes \in accepted,
                seenBefore |-> readSeen, countBefore |-> readNonceCount]

\* a caller (the session loop) reads the next frame from the stream the
\* writers wrote; a read that lacks bytes waits for them
ReadFrameStream ==
    /\ ~rdead
    /\ HeaderReadable(wire, rpos)
    /\ LET res == ReadFrame(wire, rpos, readSeen, readNonceCount)
       IN  /\ ~res.short
           /\ Returned("stream", res)
           /\ rpos' = rpos + res.n
           /\ rdead' = (res.err # "")
           /\ got' = Append(got, [err |-> res.err, frame |-> res.frame])
    /\ UNCHANGED <<writeNonceCount, wpc, wloc, wire, calls, overlapped,
                   nDeliver, profVars, padCall, connVars, cls, dispVars, lockVars>>

\* the bytes of the frame that completed call j wrote, as a reader of its own
FrameBytes(j) ==
    <<Raw(calls[j].header), Raw(calls[j].nonce), calls[j].ciphertext>>

\* the bytes of one written frame are handed to ReadFrame on their own, in
\* any order and any number of times (bytes.NewReader(b) in the tests; a
\* network that duplicates and reorders)
Deliver(j) ==
    /\ nDeliver < MaxDeliver
    /\ calls[j].done
    /\ LET res == ReadFrame(FrameBytes(j), 0, readSeen, readNonceCount)
       IN  Returned("deliver", res)
    /\ nDeliver' = nDeliver + 1
    /\ UNCHANGED <<writeNonceCount, wpc, wloc, wire, calls, overlapped,
                   rpos, rdead, got, profVars, padCall, connVars, cls, dispVars, lockVars>>

----------------------------------------------------------------------------
(* The session specification. *)

NoCall == [src |-> "none", err |-> "", frame |-> NoFrame, authentic |-> FALSE,
           counter |-> 0, wasAccepted |-> FALSE, seenBefore |-> FALSE,
           countBefore |-> 0]

\* NewSession: &Session{aead: aead}
NewSession ==
    /\ writeNonceCount = 0
    /\ readNonceCount = 0
    /\ readSeen = FALSE
    /\ wpc = [w \in Writers |-> "idle"]
    /\ wloc = [w \in Writers |-> IdleLoc]
    /\ wire = <<>>
    /\ calls = <<>>
    /\ overlapped = FALSE
    /\ rpos = 0
    /\ rdead = FALSE
    /\ got = <<>>
    /\ accepted = {}
    /\ acc = <<>>
    /\ last = NoCall
    /\ nDeliver = 0

\* no profile is in use
NoProfile ==
    /\ PacketSizes = <<>>
    /\ Delays = <<>>
    /\ nextPacketSize = 0
    /\ nextDelay = Zeros(8)
    /\ hist = <<>>

NoPad == [data |-> <<>>, targetSize |-> 0, out |-> <<>>, called |-> FALSE]

\* AddPadding has not been called
NoPadding == padCall = NoPad

NilFallback == [nil |-> TRUE, Dest |-> 0]

NoHandshake == [PublicKey |-> <<>>, UserID |-> <<>>, PolicyReq |-> <<>>,
                Timestamp |-> 0, Nonce |-> <<>>]

\* handleFallback has not dialed
RelayIdle ==
    /\ dialed = FALSE
    /\ trecv = <<>>
    /\ tsent = 0
    /\ tstate = "open"
    /\ twclosed = FALSE
    /\ targetClosed = FALSE
    /\ p1 = "idle"
    /\ p2 = "idle"
    /\ p2pos = 0
    /\ errc = <<>>
    /\ pend = [p1 |-> "", p2 |-> ""]

\* Process has not gone past the peek
PastPeekIdle ==
    /\ rdpos = 0
    /\ hs = NoHandshake
    /\ serverPub = <<>>
    /\ wrote = <<>>
    /\ connClosed = FALSE
    /\ session = FALSE
    /\ RelayIdle

\* a handler without clients or fallback, and nothing past the peek
NoHandler ==
    /\ clients = {}
    /\ fallback = NilFallback
    /\ cframes = <<>>
    /\ targetUp = FALSE
    /\ tresp = <<>>
    /\ PastPeekIdle

\* no connection has been accepted
NoConn ==
    /\ cstream = <<>>
    /\ csent = 0
    /\ cstate = "open"
    /\ ppc = "none"
    /\ peeked = <<>>
    /\ pret = ""
    /\ psite = ""
    /\ NoHandler

NilDispatcher == [nil |-> TRUE]

\* Process was handed no dispatcher and nothing was dispatched
NoDispatch ==
    /\ dispatcher = NilDispatcher
    /\ links = <<>>

Goroutines == {"g1", "g2"}

NoCallOn == [pc |-> "idle", op |-> "", arg |-> 0, ret |-> 0, within |-> ""]

\* no goroutine is inside a call on the profile
NoCallers ==
    /\ mu = ""
    /\ gor = [g \in Goroutines |-> NoCallOn]

NoCls == [buf |-> <<>>, called |-> FALSE, isReflexMagic |-> FALSE,
          isHTTPPostLike |-> FALSE, isReflexHandshake |-> FALSE, route |-> ""]

\* no classifier has been called
NoClassify == cls = NoCls

InitSession == NewSession /\ NoDispatch /\ NoCallers /\ NoProfile /\ NoPadding /\ NoConn /\ NoClassify

\* one caller writes frame after frame; the reader takes them from the stream
\* and, delivered singly, in any order and repeatedly
NextSession ==
    \/ \E f \in FrameInputs : WriteFrameBegin("w1", f.Type, f.Payload)
    \/ WriteHeader("w1")
    \/ WriteNonce("w1")
    \/ WriteCiphertext("w1")
    \/ ReadFrameStream
    \/ \E j \in DOMAIN calls : Deliver(j)

SpecSession == InitSession /\ [][NextSession]_vars

\* several callers write to one session and one writer at once
NextWriters ==
    \/ \E w \in Writers, f \in FrameInputs :
           WriteFrameBegin(w, f.Type, f.Payload)
    \/ \E w \in Writers : WriteHeader(w)
    \/ \E w \in Writers : WriteNonce(w)
    \/ \E w \in Writers : WriteCiphertext(w)
    \/ ReadFrameStream

SpecWriters == InitSession /\ [][NextWriters]_vars

\* a nonce whose counter bytes are all 0xff, and one with counter 1000
HugeNonce == Zeros(4) \o [i \in 1..8 |-> 255]
PeerNonce == makeNonce(Zeros(NonceSize), 1000)

\* frames that reach ReadFrame from elsewhere than WriteFrame: a length
\* prefix below 12, one that leaves fewer than 16 bytes of ciphertext, a
\* frame with a huge counter and a ciphertext nobody sealed, and a box the
\* peer sealed over an empty plaintext
ForeignFrames ==
    { [case |-> "total_len < 12", bytes |-> <<Raw(<<0, 11>>), Raw(HugeNonce)>>],
      [case |-> "total_len - 12 < 16",
       bytes |-> <<Raw(<<0, 27>>), Raw(HugeNonce), Raw(Zeros(15))>>],
      [case |-> "open fails",
       bytes |-> <<Raw(<<0, 28>>), Raw(HugeNonce), Raw(Zeros(16))>>],
      [case |-> "empty plaintext",
       bytes |-> <<Raw(<<0, 28>>), Raw(PeerNonce),
                   Seal(SessionKey, PeerNonce, <<>>)>>] }

\* session.go:87-134: ReadFrame is handed a frame that no WriteFrame call of
\* this session made
DeliverForeign(f) ==
    /\ nDeliver < MaxDeliver
    /\ LET res == ReadFrame(f.bytes, 0, readSeen, readNonceCount)
       IN  Returned(f.case, res)
    /\ nDeliver' = nDeliver + 1
    /\ UNCHANGED <<writeNonceCount, wpc, wloc, wire, calls, overlapped,
                   rpos, rdead, got, profVars, padCall, connVars, cls, dispVars, lockVars>>

\* the reader of a session gets genuine, repeated and foreign frames
NextReader ==
    \/ \E f \in FrameInputs : WriteFrameBegin("w1", f.Type, f.Payload)
    \/ WriteHeader("w1")
    \/ WriteNonce("w1")
    \/ WriteCiphertext("w1")
    \/ ReadFrameStream
    \/ \E j \in DOMAIN calls : Deliver(j)
    \/ \E f \in ForeignFrames : DeliverForeign(f)

SpecReader == InitSession /\ [][NextReader]_vars


----------------------------------------------------------------------------
(* morph.go: the traffic profile.  A weight is held in tenths and the draw  *)
(* r of rand.Float64(), which lies in [0, 1), in tenths too.  A              *)
(* time.Duration is an int64 of nanoseconds, held as its 8 bytes, most       *)
(* significant first, in two's complement.                                   *)

\* an int64 from a small non-negative number
I64(n) == PutBE(n, 8)

\* d > 0 for an int64
I64Positive(d) == d[1] < 128 /\ d # Zeros(8)

RECURSIVE MulBE(_, _, _)
\* the big-endian number b times m plus carry, kept to Len(b) bytes
MulBE(b, m, carry) ==
    IF Len(b) = 0 THEN <<>>
    ELSE LET prod == b[Len(b)] * m + carry
         IN  Append(MulBE(SubSeq(b, 1, Len(b) - 1), m, prod \div 256), prod % 256)

Millisecond == 1000000

\* time.Duration(u) * time.Millisecond for the uint64 u given by 8 bytes
DurationOfMillis(u) == MulBE(u, Millisecond, 0)

Ms(n) == I64(n * Millisecond)

\* morph.go:37-79 and CreateProfileFromCapture: the profiles a caller may hold
Profiles ==
    { [Name |-> "HTTP/2 API",
       PacketSizes |-> << [Size |-> 200, Weight |-> 2], [Size |-> 500, Weight |-> 3],
                          [Size |-> 1000, Weight |-> 3], [Size |-> 1500, Weight |-> 2] >>,
       Delays |-> << [Delay |-> Ms(5), Weight |-> 3], [Delay |-> Ms(10), Weight |-> 4],
                     [Delay |-> Ms(15), Weight |-> 3] >>],
      [Name |-> "Zoom",
       PacketSizes |-> << [Size |-> 500, Weight |-> 3], [Size |-> 600, Weight |-> 4],
                          [Size |-> 700, Weight |-> 3] >>,
       Delays |-> << [Delay |-> Ms(30), Weight |-> 4], [Delay |-> Ms(40), Weight |-> 4],
                     [Delay |-> Ms(50), Weight |-> 2] >>],
      [Name |-> "empty capture", PacketSizes |-> <<>>, Delays |-> <<>>] }

\* the values rand.Float64() may return, in tenths
RandomDraws == {0, 2, 3, 5, 8, 9}

RECURSIVE WalkSizesStrict(_, _, _, _)
\* the loop with r < cumsum for r <= cumsum
WalkSizesStrict(dist, i, cumsum, r) ==
    IF i > Len(dist) THEN dist[Len(dist)].Size
    ELSE IF r < cumsum + dist[i].Weight THEN dist[i].Size
    ELSE WalkSizesStrict(dist, i + 1, cumsum + dist[i].Weight, r)

RECURSIVE WalkSizes(_, _, _, _)
\* morph.go:98-105: the loop over p.PacketSizes from bucket i on
WalkSizes(dist, i, cumsum, r) ==
    IF i > Len(dist) THEN dist[Len(dist)].Size
    ELSE IF r <= cumsum + dist[i].Weight THEN dist[i].Size
    ELSE WalkSizes(dist, i + 1, cumsum + dist[i].Weight, r)

RECURSIVE WalkDelays(_, _, _, _)
\* morph.go:125-132: the loop over p.Delays from bucket i on
WalkDelays(dist, i, cumsum, r) ==
    IF i > Len(dist) THEN dist[Len(dist)].Delay
    ELSE IF r <= cumsum + dist[i].Weight THEN dist[i].Delay
    ELSE WalkDelays(dist, i + 1, cumsum + dist[i].Weight, r)

\* the override returned but not cleared
SamplePacketSizeSticky(sizes, next, r) ==
    IF next > 0 THEN [ret |-> next, next |-> next]
    ELSE IF Len(sizes) = 0 THEN [ret |-> 0, next |-> next]
    ELSE [ret |-> WalkSizes(sizes, 1, 0, r), next |-> next]

\* morph.go:83-106: [ret, next]: the size returned and p.nextPacketSize after
SamplePacketSize(sizes, next, r) ==
    IF next > 0 THEN [ret |-> next, next |-> 0]
    ELSE IF Len(sizes) = 0 THEN [ret |-> 0, next |-> next]
    ELSE [ret |-> WalkSizes(sizes, 1, 0, r), next |-> next]

\* morph.go:110-133: [ret, next]: the delay returned and p.nextDelay after
SampleDelay(delays, next, r) ==
    IF I64Positive(next) THEN [ret |-> next, next |-> Zeros(8)]
    ELSE IF Len(delays) = 0 THEN [ret |-> Zeros(8), next |-> next]
    ELSE [ret |-> WalkDelays(delays, 1, 0, r), next |-> next]

\* the target size decoded least significant byte first
ControlFrameEffectLittleEndian(frameType, payload, size, delay) ==
    IF frameType = FrameTypePaddingCtrl /\ BLen(payload) >= 2
    THEN [size |-> Plain(BTake(payload, 2))[2] * 256 + Plain(BTake(payload, 2))[1],
          delay |-> delay]
    ELSE IF frameType = FrameTypeTimingCtrl /\ BLen(payload) >= 8
    THEN [size |-> size, delay |-> DurationOfMillis(Plain(BTake(payload, 8)))]
    ELSE [size |-> size, delay |-> delay]

\* a PADDING_CTRL frame that also clears the delay override
ControlFrameEffectClearsDelay(frameType, payload, size, delay) ==
    IF frameType = FrameTypePaddingCtrl /\ BLen(payload) >= 2
    THEN [size |-> Uint16(Plain(BTake(payload, 2))), delay |-> Zeros(8)]
    ELSE IF frameType = FrameTypeTimingCtrl /\ BLen(payload) >= 8
    THEN [size |-> size, delay |-> DurationOfMillis(Plain(BTake(payload, 8)))]
    ELSE [size |-> size, delay |-> delay]

\* morph.go:185-199: [size, delay]: the two overrides after ApplyControlFrame
\* on a profile that is not nil
ControlFrameEffect(frameType, payload, size, delay) ==
    IF frameType = FrameTypePaddingCtrl /\ BLen(payload) >= 2
    THEN [size |-> Uint16(Plain(BTake(payload, 2))), delay |-> delay]
    ELSE IF frameType = FrameTypeTimingCtrl /\ BLen(payload) >= 8
    THEN [size |-> size, delay |-> DurationOfMillis(Plain(BTake(payload, 8)))]
    ELSE [size |-> size, delay |-> delay]

Logged(e) == hist' = Append(hist, e)

\* morph.go:136-140
SetNextPacketSize(size) ==
    /\ Len(hist) < MaxCalls
    /\ nextPacketSize' = size
    /\ Logged([op |-> "SetNextPacketSize", size |-> size])
    /\ UNCHANGED <<PacketSizes, Delays, nextDelay, sessVars, padCall, connVars, cls, dispVars, lockVars>>

\* morph.go:143-147
SetNextDelay(delay) ==
    /\ Len(hist) < MaxCalls
    /\ nextDelay' = delay
    /\ Logged([op |-> "SetNextDelay", delay |-> delay])
    /\ UNCHANGED <<PacketSizes, Delays, nextPacketSize, sessVars, padCall, connVars, cls, dispVars, lockVars>>

\* morph.go:83-106
GetPacketSize(r) ==
    /\ Len(hist) < MaxCalls
    /\ LET res == SamplePacketSize(PacketSizes, nextPacketSize, r)
       IN  /\ nextPacketSize' = res.next
           /\ Logged([op |-> "GetPacketSize", r |-> r, ret |-> res.ret])
    /\ UNCHANGED <<PacketSizes, Delays, nextDelay, sessVars, padCall, connVars, cls, dispVars, lockVars>>

\* morph.go:110-133
GetDelay(r) ==
    /\ Len(hist) < MaxCalls
    /\ LET res == SampleDelay(Delays, nextDelay, r)
       IN  /\ nextDelay' = res.next
           /\ Logged([op |-> "GetDelay", r |-> r, ret |-> res.ret])
    /\ UNCHANGED <<PacketSizes, Delays, nextPacketSize, sessVars, padCall, connVars, cls, dispVars, lockVars>>

\* the control frames a peer may send
ControlInputs ==
    { [Type |-> FrameTypePaddingCtrl, Payload |-> B(<<4, 210>>)],
      [Type |-> FrameTypePaddingCtrl, Payload |-> B(<<255, 255, 9>>)],
      [Type |-> FrameTypePaddingCtrl, Payload |-> B(<<0, 1>>)],
      [Type |-> FrameTypePaddingCtrl, Payload |-> B(<<0, 0>>)],
      [Type |-> FrameTypePaddingCtrl, Payload |-> B(<<7>>)],
      [Type |-> FrameTypeTimingCtrl, Payload |-> B(<<0, 0, 0, 0, 0, 0, 0, 42>>)],
      [Type |-> FrameTypeTimingCtrl, Payload |-> B(<<0, 0, 0, 42>>)],
      [Type |-> FrameTypeData, Payload |-> B(<<4, 210, 0, 0, 0, 0, 0, 42>>)] }

\* morph.go:185-199, on a profile that is not nil
ApplyControlFrame(frameType, payload) ==
    /\ Len(hist) < MaxCalls
    /\ LET eff == ControlFrameEffect(frameType, payload, nextPacketSize, nextDelay)
       IN  /\ nextPacketSize' = eff.size
           /\ nextDelay' = eff.delay
    /\ Logged([op |-> "ApplyControlFrame", type |-> frameType, payload |-> payload])
    /\ UNCHANGED <<PacketSizes, Delays, sessVars, padCall, connVars, cls, dispVars, lockVars>>

\* a profile as it is built: no override pending
InitProfile ==
    /\ \E p \in Profiles : PacketSizes = p.PacketSizes /\ Delays = p.Delays
    /\ nextPacketSize = 0
    /\ nextDelay = Zeros(8)
    /\ hist = <<>>
    /\ NewSession /\ NoDispatch /\ NoCallers
    /\ NoPadding
    /\ NoConn
    /\ NoClassify

NextProfile ==
    \/ \E size \in {0, 1234} : SetNextPacketSize(size)
    \/ \E delay \in {Zeros(8), Ms(42)} : SetNextDelay(delay)
    \/ \E r \in RandomDraws : GetPacketSize(r)
    \/ \E r \in RandomDraws : GetDelay(r)
    \/ \E f \in ControlInputs : ApplyControlFrame(f.Type, f.Payload)

SpecProfile == InitProfile /\ [][NextProfile]_vars

\* a profile a caller filled in by hand (the fields are exported): the
\* weights sum to 0.5
CallerBuilt ==
    [Name |-> "caller-built",
     PacketSizes |-> << [Size |-> 100, Weight |-> 2], [Size |-> 300, Weight |-> 3] >>,
     Delays |-> << [Delay |-> Ms(1), Weight |-> 2], [Delay |-> Ms(2), Weight |-> 3] >>]

\* morph.go:185-188: ApplyControlFrame with a nil profile returns at once;
\* the profiles that exist are not touched
ApplyControlFrameNil(frameType, payload) ==
    /\ Len(hist) < MaxCalls
    /\ Logged([op |-> "ApplyControlFrame(nil)", type |-> frameType,
               payload |-> payload])
    /\ UNCHANGED <<PacketSizes, Delays, nextPacketSize, nextDelay, sessVars,
                   padCall, connVars, cls, dispVars, lockVars>>

\* control frames of every kind: well-formed, too short, of another type,
\* and TIMING_CTRL frames carrying 2^58 + 1 and 2^63 milliseconds
ControlFrames ==
    { [Type |-> FrameTypePaddingCtrl, Payload |-> B(<<4, 210>>)],
      [Type |-> FrameTypePaddingCtrl, Payload |-> B(<<7>>)],
      [Type |-> FrameTypeTimingCtrl, Payload |-> B(<<0, 0, 0, 0, 0, 0, 0, 42, 9>>)],
      [Type |-> FrameTypeTimingCtrl, Payload |-> B(<<0, 0, 0, 0, 0, 0, 42>>)],
      [Type |-> FrameTypeTimingCtrl, Payload |-> B(<<4, 0, 0, 0, 0, 0, 0, 1>>)],
      [Type |-> FrameTypeTimingCtrl, Payload |-> B(<<128, 0, 0, 0, 0, 0, 0, 0>>)],
      [Type |-> FrameTypeData, Payload |-> B(<<4, 210, 0, 0, 0, 0, 0, 42>>)] }

InitControl ==
    /\ \E p \in {q \in Profiles : q.Name \in {"HTTP/2 API", "empty capture"}}
                  \cup {CallerBuilt} :
           PacketSizes = p.PacketSizes /\ Delays = p.Delays
    /\ nextPacketSize = 0
    /\ nextDelay = Zeros(8)
    /\ hist = <<>>
    /\ NewSession /\ NoDispatch /\ NoCallers
    /\ NoPadding
    /\ NoConn
    /\ NoClassify

\* a profile that is sampled while control frames arrive
NextControl ==
    \/ \E r \in RandomDraws : GetPacketSize(r)
    \/ \E r \in RandomDraws : GetDelay(r)
    \/ \E f \in ControlFrames : ApplyControlFrame(f.Type, f.Payload)
    \/ ApplyControlFrameNil(FrameTypePaddingCtrl, B(<<4, 210>>))

SpecControl == InitControl /\ [][NextControl]_vars

----------------------------------------------------------------------------
(* morph.go: AddPadding. *)

\* the bytes crypto/rand may produce for a padding of n bytes
RandomBytes(n) ==
    IF n = 0 THEN {<<>>}
    ELSE {BFill(n, 0), BFill(n, 171), BCat(BFill(1, 97), BFill(n - 1, 255))}

\* a payload longer than the target returned whole
AddPaddingNoCut(data, targetSize, padding) ==
    IF targetSize <= 0 THEN data
    ELSE IF BLen(data) >= targetSize THEN data
    ELSE BCat(data, padding)

\* morph.go:151-162: the result, with the random padding given
AddPadding(data, targetSize, padding) ==
    IF targetSize <= 0 THEN data
    ELSE IF BLen(data) >= targetSize THEN BTake(data, targetSize)
    ELSE BCat(data, padding)

\* the payloads and the target sizes AddPadding is called with
PadData ==
    {<<>>, B(<<97, 98, 99>>), B(<<97>>), B(<<97, 97, 98, 98>>), BFill(1000, 0),
     BCat(BFill(700, 1), BFill(800, 2)), BFill(65535, 0)}
PadTargets == {-5, 0, 1, 2, 3, 4, 10, 200, 1000, 1234, 1500, 65535}

CallAddPadding(data, targetSize) ==
    /\ ~padCall.called
    /\ \E padding \in RandomBytes(Max(targetSize - BLen(data), 0)) :
           padCall' = [data |-> data, targetSize |-> targetSize,
                       out |-> AddPadding(data, targetSize, padding),
                       called |-> TRUE]
    /\ UNCHANGED <<sessVars, profVars, connVars, cls, dispVars, lockVars>>

InitPadding == NewSession /\ NoDispatch /\ NoCallers /\ NoProfile /\ NoPadding /\ NoConn /\ NoClassify

NextPadding == \E data \in PadData, targetSize \in PadTargets :
                   CallAddPadding(data, targetSize)

SpecPadding == InitPadding /\ [][NextPadding]_vars

----------------------------------------------------------------------------
(* morph.go: WriteFrameWithMorphing, by one caller at a time. *)

ErrShortWrite == "short write"

\* how the three w.Write calls of WriteFrame go on morphed writes: all
\* succeed, or the second fails; and the draws of rand.Float64() (in tenths)
\* tried: the first bucket and the last
MorphOutcomes == {"ok", "nonce fails"}
MorphDraws == {0, 9}

\* session.go:52-78 run to its end: [header, nonce, ciphertext, written,
\* err], with the counter nonceCount drawn under the lock
WriteFrame(nonceCount, frameType, payload, outcome) ==
    LET plaintext == BCat(B(<<frameType>>), payload)
        nonce == makeNonce(Zeros(NonceSize), nonceCount)
        ciphertext == Seal(SessionKey, nonce, plaintext)
        totalLen == Len(nonce) + SegLen(ciphertext)
        header == PutUint16(ToUint16(totalLen))
    IN  [header |-> header, nonce |-> nonce, ciphertext |-> ciphertext,
         written |-> IF outcome = "header fails" THEN <<>>
                     ELSE IF outcome = "nonce fails" THEN <<Raw(header)>>
                     ELSE IF outcome = "ciphertext fails"
                     THEN <<Raw(header), Raw(nonce)>>
                     ELSE <<Raw(header), Raw(nonce), ciphertext>>,
         err |-> IF outcome = "ok" THEN "" ELSE ErrShortWrite]

\* the delay sampled whether or not the frame was written
DelayAfterWriteAlways(err, delays, next, r) ==
    LET res == SampleDelay(delays, next, r)
    IN  [samples |-> <<res.ret>>, next |-> res.next,
         slept |-> IF I64Positive(res.ret) THEN <<res.ret>> ELSE <<>>]

\* morph.go:173-179: what follows session.WriteFrame: [samples, next,
\* slept]: the GetDelay results, p.nextDelay after, the time.Sleep calls
DelayAfterWrite(err, delays, next, r) ==
    IF err # ""
    THEN [samples |-> <<>>, next |-> next, slept |-> <<>>]
    ELSE LET res == SampleDelay(delays, next, r)
         IN  [samples |-> <<res.ret>>, next |-> res.next,
              slept |-> IF I64Positive(res.ret) THEN <<res.ret>> ELSE <<>>]

\* the payloads handed to WriteFrameWithMorphing
MorphPayloads == {B(<<104, 105>>), BFill(2000, 7)}

\* what one call leaves in the session and on the writer
FrameWritten(frameType, payload, fr) ==
    /\ writeNonceCount' = NextCount(writeNonceCount)
    /\ wire' = wire \o fr.written
    /\ calls' = Append(calls,
                   [w |-> "w1", Type |-> frameType, Payload |-> payload,
                    header |-> fr.header, nonce |-> fr.nonce,
                    ciphertext |-> fr.ciphertext, done |-> fr.err = "",
                    before |-> {i \in DOMAIN calls : calls[i].done}])
    /\ UNCHANGED <<readNonceCount, readSeen, wpc, wloc, overlapped, rpos,
                   rdead, got, accepted, acc, last, nDeliver>>

\* morph.go:167-170: WriteFrameWithMorphing with a nil profile
WriteFrameWithMorphingNil(frameType, payload) ==
    /\ Len(calls) < MaxFrames
    /\ Len(hist) < MaxCalls
    /\ \E outcome \in MorphOutcomes :
         LET fr == WriteFrame(writeNonceCount, frameType, payload, outcome)
         IN  /\ FrameWritten(frameType, payload, fr)
             /\ Logged([op |-> "WriteFrameWithMorphing", profile |-> "nil",
                        type |-> frameType, payload |-> payload,
                        sizes |-> <<>>, morphed |-> payload,
                        written |-> fr.written, err |-> fr.err,
                        delays |-> <<>>, slept |-> <<>>])
    /\ UNCHANGED <<PacketSizes, Delays, nextPacketSize, nextDelay, padCall,
                   connVars, cls, dispVars, lockVars>>

\* morph.go:167-180: WriteFrameWithMorphing with a profile
WriteFrameWithMorphing(frameType, payload) ==
    /\ Len(calls) < MaxFrames
    /\ Len(hist) < MaxCalls
    /\ \E r1 \in MorphDraws, r2 \in MorphDraws, outcome \in MorphOutcomes :
         LET size == SamplePacketSize(PacketSizes, nextPacketSize, r1)
             targetSize == size.ret
         IN  \E padding \in RandomBytes(Max(targetSize - BLen(payload), 0)) :
               LET morphed == AddPadding(payload, targetSize, padding)
                   fr == WriteFrame(writeNonceCount, frameType, morphed, outcome)
                   d == DelayAfterWrite(fr.err, Delays, nextDelay, r2)
               IN  /\ nextPacketSize' = size.next
                   /\ padCall' = [data |-> payload, targetSize |-> targetSize,
                                  out |-> morphed, called |-> TRUE]
                   /\ FrameWritten(frameType, morphed, fr)
                   /\ nextDelay' = d.next
                   /\ Logged([op |-> "WriteFrameWithMorphing",
                              profile |-> "set", type |-> frameType,
                              payload |-> payload, sizes |-> <<targetSize>>,
                              morphed |-> morphed, written |-> fr.written,
                              err |-> fr.err, delays |-> d.samples,
                              slept |-> d.slept])
    /\ UNCHANGED <<PacketSizes, Delays, connVars, cls, dispVars, lockVars>>

\* the control frames the peer sends between the writes
MorphControls ==
    { [Type |-> FrameTypePaddingCtrl, Payload |-> B(<<255, 255>>)],
      [Type |-> FrameTypePaddingCtrl, Payload |-> B(<<0, 1>>)],
      [Type |-> FrameTypeTimingCtrl, Payload |-> B(<<0, 0, 0, 0, 0, 0, 0, 42>>)] }

\* the caller holds the profile a new Handler gets ("http2-api") or one
\* captured from no traffic
InitMorph ==
    /\ \E p \in {q \in Profiles : q.Name \in {"HTTP/2 API", "empty capture"}} :
           PacketSizes = p.PacketSizes /\ Delays = p.Delays
    /\ nextPacketSize = 0
    /\ nextDelay = Zeros(8)
    /\ hist = <<>>
    /\ NewSession /\ NoDispatch /\ NoCallers
    /\ NoPadding
    /\ NoConn
    /\ NoClassify

NextMorph ==
    \/ WriteFrameWithMorphingNil(FrameTypeData, B(<<104, 105>>))
    \/ \E payload \in MorphPayloads :
           WriteFrameWithMorphing(FrameTypeData, payload)
    \/ \E f \in MorphControls : ApplyControlFrame(f.Type, f.Payload)

SpecMorph == InitMorph /\ [][NextMorph]_vars

----------------------------------------------------------------------------
(* morph.go: one TrafficProfile called by several goroutines at once, the  *)
(* session loops of the connections of one handler.  A method is a         *)
(* sequence of steps: p.mu.Lock(), the statements of the body one by one,  *)
(* and the deferred p.mu.Unlock() at the return, where the call is logged. *)

\* a lock that does not exclude
MayLockAlways(holder) == TRUE

\* morph.go:84, 111, 137, 144: p.mu.Lock() goes through when nobody holds
\* the mutex
MayLock(holder) == holder = ""

\* the override left in place by the Get that returns it
AfterUseKept(size) == size

\* morph.go:89: p.nextPacketSize = 0
AfterUse(size) == size - size

SizeOps == {"SetNextPacketSize", "GetPacketSize"}
DelayOps == {"SetNextDelay", "GetDelay"}
SetOps == {"SetNextPacketSize", "SetNextDelay"}

\* the values the control frames of the connections set: 1234 and 1 byte,
\* 42 ms
SharedSets ==
    { [op |-> "SetNextPacketSize", arg |-> 1234],
      [op |-> "SetNextPacketSize", arg |-> 1],
      [op |-> "SetNextDelay", arg |-> Ms(42)] }

\* the read-back a connection wraps in a frame: "hi"
SharedPayload == B(<<104, 105>>)

\* a goroutine enters a method of the profile
Enter(g, op, arg, within) ==
    /\ gor[g].pc = "idle"
    /\ Len(hist) + Cardinality({w \in Goroutines : gor[w].pc # "idle"}) < MaxCalls
    /\ gor' = [gor EXCEPT ![g] = [pc |-> "Lock", op |-> op, arg |-> arg,
                                  ret |-> 0, within |-> within]]
    /\ UNCHANGED <<mu, profVars, sessVars, padCall, connVars, cls, dispVars>>

\* reflex.go:494, morph.go:192, 196: a control frame read by the session
\* loop of g calls SetNextPacketSize or SetNextDelay
CallSet(g, c) == Enter(g, c.op, c.arg, "ApplyControlFrame")

\* a direct call of GetPacketSize or GetDelay
CallGet(g, op) == Enter(g, op, 0, "")

\* reflex.go:489, morph.go:171: WriteFrameWithMorphing called by the session
\* loop of g begins with profile.GetPacketSize()
CallMorph(g) == Enter(g, "GetPacketSize", 0, "WriteFrameWithMorphing")

\* p.mu.Lock()
Lock(g) ==
    /\ gor[g].pc = "Lock"
    /\ MayLock(mu)
    /\ mu' = g
    /\ gor' = [gor EXCEPT ![g].pc = IF gor[g].op \in SetOps THEN "set"
                                    ELSE "test"]
    /\ UNCHANGED <<profVars, sessVars, padCall, connVars, cls, dispVars>>

\* morph.go:139, 146: the assignment of SetNextPacketSize and SetNextDelay
SetBody(g) ==
    /\ gor[g].pc = "set"
    /\ IF gor[g].op = "SetNextPacketSize"
       THEN nextPacketSize' = gor[g].arg /\ UNCHANGED nextDelay
       ELSE nextDelay' = gor[g].arg /\ UNCHANGED nextPacketSize
    /\ gor' = [gor EXCEPT ![g].pc = "Unlock"]
    /\ UNCHANGED <<mu, PacketSizes, Delays, hist, sessVars, padCall, connVars,
                   cls, dispVars>>

\* morph.go:87-88, 93-105 and 114-115, 120-132: the test of the override;
\* the override is read into the result, or a value is sampled with the
\* draw r and returned
GetTest(g, r) ==
    /\ gor[g].pc = "test"
    /\ IF gor[g].op = "GetPacketSize"
       THEN IF nextPacketSize > 0
            THEN gor' = [gor EXCEPT ![g].pc = "clear", ![g].ret = nextPacketSize,
                                    ![g].arg = 0]
            ELSE gor' = [gor EXCEPT ![g].pc = "Unlock", ![g].arg = r,
                            ![g].ret = SamplePacketSize(PacketSizes, 0, r).ret]
       ELSE IF I64Positive(nextDelay)
            THEN gor' = [gor EXCEPT ![g].pc = "clear", ![g].ret = nextDelay,
                                    ![g].arg = 0]
            ELSE gor' = [gor EXCEPT ![g].pc = "Unlock", ![g].arg = r,
                            ![g].ret = SampleDelay(Delays, Zeros(8), r).ret]
    /\ UNCHANGED <<mu, profVars, sessVars, padCall, connVars, cls, dispVars>>

\* morph.go:89, 116: the override is cleared
GetClear(g) ==
    /\ gor[g].pc = "clear"
    /\ IF gor[g].op = "GetPacketSize"
       THEN nextPacketSize' = AfterUse(gor[g].ret) /\ UNCHANGED nextDelay
       ELSE nextDelay' = Zeros(8) /\ UNCHANGED nextPacketSize
    /\ gor' = [gor EXCEPT ![g].pc = "Unlock"]
    /\ UNCHANGED <<mu, PacketSizes, Delays, hist, sessVars, padCall, connVars,
                   cls, dispVars>>

\* the deferred p.mu.Unlock() and the return; inside WriteFrameWithMorphing
\* the size returned goes to AddPadding and WriteFrame (morph.go:172-173)
Unlock(g) ==
    /\ gor[g].pc = "Unlock"
    /\ mu' = IF mu = g THEN "" ELSE mu
    /\ Logged([op |-> gor[g].op, g |-> g, arg |-> gor[g].arg,
               ret |-> gor[g].ret, within |-> gor[g].within])
    /\ gor' = [gor EXCEPT ![g] =
                 IF gor[g].within = "WriteFrameWithMorphing"
                       /\ gor[g].op = "GetPacketSize"
                 THEN [gor[g] EXCEPT !.pc = "write"]
                 ELSE NoCallOn]
    /\ UNCHANGED <<PacketSizes, Delays, nextPacketSize, nextDelay, sessVars,
                   padCall, connVars, cls, dispVars>>

\* morph.go:172-176: AddPadding, then WriteFrame on the connection's own
\* session and socket, which may fail; after a frame that was written,
\* profile.GetDelay()
MorphWrite(g) ==
    /\ gor[g].pc = "write"
    /\ \E outcome \in MorphOutcomes :
         LET targetSize == gor[g].ret
             padding == BFill(Max(targetSize - BLen(SharedPayload), 0), 0)
             morphed == AddPadding(SharedPayload, targetSize, padding)
             err == IF outcome = "ok" THEN "" ELSE ErrShortWrite
         IN  /\ Logged([op |-> "WriteFrame", g |-> g, arg |-> targetSize,
                        ret |-> BLen(morphed), within |-> err])
             /\ gor' = [gor EXCEPT ![g] =
                          IF err = ""
                          THEN [pc |-> "Lock", op |-> "GetDelay", arg |-> 0,
                                ret |-> 0, within |-> "WriteFrameWithMorphing"]
                          ELSE NoCallOn]
    /\ UNCHANGED <<mu, PacketSizes, Delays, nextPacketSize, nextDelay,
                   sessVars, padCall, connVars, cls, dispVars>>

\* reflex.go:211-213: the handler's default profile, no override pending,
\* and its connections' goroutines outside every call
InitShared ==
    /\ \E p \in {q \in Profiles : q.Name = "HTTP/2 API"} :
           PacketSizes = p.PacketSizes /\ Delays = p.Delays
    /\ nextPacketSize = 0
    /\ nextDelay = Zeros(8)
    /\ hist = <<>>
    /\ NewSession /\ NoDispatch /\ NoCallers
    /\ NoPadding
    /\ NoConn
    /\ NoClassify

NextShared ==
    \/ \E g \in Goroutines, c \in SharedSets : CallSet(g, c)
    \/ \E g \in Goroutines, op \in {"GetPacketSize", "GetDelay"} : CallGet(g, op)
    \/ \E g \in Goroutines : CallMorph(g)
    \/ \E g \in Goroutines : Lock(g)
    \/ \E g \in Goroutines : SetBody(g)
    \/ \E g \in Goroutines, r \in MorphDraws : GetTest(g, r)
    \/ \E g \in Goroutines : GetClear(g)
    \/ \E g \in Goroutines : Unlock(g)
    \/ \E g \in Goroutines : MorphWrite(g)

SpecShared == InitShared /\ [][NextShared]_vars

----------------------------------------------------------------------------
(* reflex.go (package inbound): the peek demultiplexer of Handler.Process. *)

ReflexMagic == 1380341836
ReflexMinHandshakeSize == 64

Uint32(b) == GetBE(SubSeq(b, 1, 4))

\* ASCII text
POST == <<80, 79, 83, 84>>
HTTP11 == <<72, 84, 84, 80, 47, 49, 46, 49>>
MagicBytes == <<82, 70, 88, 76>>
SP == <<32>>
CRLF == <<13, 10>>
GETLine == <<71, 69, 84, 32, 47, 32>> \o HTTP11 \o CRLF
HostX == <<72, 111, 115, 116, 58, 32, 120>> \o CRLF
Fill(n) == [i \in 1..n |-> 120]

Take(b, n) == SubSeq(b, 1, Min(n, Len(b)))

\* the magic number decoded least significant byte first
isReflexMagicLittleEndian(data) ==
    IF Len(data) < 4 THEN FALSE
    ELSE Uint32(<<data[4], data[3], data[2], data[1]>>) = ReflexMagic

\* reflex.go:230-236
isReflexMagic(data) ==
    IF Len(data) < 4 THEN FALSE
    ELSE Uint32(SubSeq(data, 1, 4)) = ReflexMagic

RECURSIVE ScanExclusive(_, _)
\* the loop bound taken as i+8 < len(b)
ScanExclusive(b, i) ==
    IF ~(i + 8 < Len(b)) THEN FALSE
    ELSE IF SubSeq(b, i + 1, i + 8) = HTTP11 THEN TRUE
    ELSE ScanExclusive(b, i + 1)

RECURSIVE Scan(_, _)
\* reflex.go:254-259: the loop of containsHTTPVersion from index i on
Scan(b, i) ==
    IF ~(i + 8 <= Len(b)) THEN FALSE
    ELSE IF SubSeq(b, i + 1, i + 8) = HTTP11 THEN TRUE
    ELSE Scan(b, i + 1)

\* reflex.go:253-260
containsHTTPVersion(b) == Scan(b, 0)

\* reflex.go:239-251
isHTTPPostLike(b) ==
    IF Len(b) < 14 THEN FALSE
    ELSE IF SubSeq(b, 1, 4) # POST THEN FALSE
    ELSE IF ~containsHTTPVersion(b) THEN FALSE
    ELSE TRUE

\* reflex.go:219-227
isReflexHandshake(data) ==
    IF isReflexMagic(data) THEN TRUE
    ELSE IF isHTTPPostLike(data) THEN TRUE
    ELSE FALSE

\* reflex.go:167-183: the handler Process calls on the peeked bytes
Route(b) ==
    IF isReflexHandshake(b)
    THEN IF Len(b) >= 4 /\ Uint32(SubSeq(b, 1, 4)) = ReflexMagic
         THEN "handleReflexMagic"
         ELSE IF isHTTPPostLike(b) THEN "handleReflexHTTP"
         ELSE "handleFallback"
    ELSE "handleFallback"

\* what clients write on a connection
Streams ==
    { MagicBytes \o Fill(MaxStream - 4),
      MagicBytes \o SP \o HTTP11 \o Fill(MaxStream - 13),
      MagicBytes \o Fill(30),
      POST \o SP \o <<47>> \o SP \o HTTP11 \o CRLF \o Fill(MaxStream - 17),
      POST \o SP \o HTTP11 \o Fill(MaxStream - 13),
      POST \o SP \o HTTP11,
      POST \o SP \o Fill(51) \o HTTP11 \o Fill(MaxStream - 64),
      POST \o SP \o Fill(52) \o HTTP11 \o Fill(MaxStream - 65),
      POST \o <<88>> \o SP \o HTTP11 \o Fill(MaxStream - 14),
      POST \o SP \o Fill(MaxStream - 5),
      POST \o SP \o <<47>> \o SP \o HTTP11 \o CRLF \o CRLF,
      GETLine \o HostX \o CRLF,
      GETLine \o HostX \o Fill(MaxStream - 25),
      <<71, 69, 84>>,
      <<82, 70, 88>> \o Fill(MaxStream - 3),
      HTTP11 \o SP \o POST \o SP \o Fill(MaxStream - 14),
      Fill(MaxStream),
      <<>> }

\* the numbers of bytes that may have arrived when the server looks
Cuts == {0, 1, 3, 4, 5, 12, 13, 14, 15, 27, 63, 64, MaxStream}

\* more of the client's bytes arrive
ClientWrite(n) ==
    /\ cstate = "open"
    /\ csent < n
    /\ n <= Len(cstream)
    /\ csent' = n
    /\ UNCHANGED <<cstream, cstate, ppc, peeked, pret, psite, procVars, sessVars, profVars,
                   padCall, cls, dispVars, lockVars>>

\* the client closes its side: reads see EOF after the bytes that arrived
ClientClose ==
    /\ cstate = "open"
    /\ cstate' = "eof"
    /\ UNCHANGED <<cstream, csent, ppc, peeked, pret, psite, procVars, sessVars, profVars,
                   padCall, cls, dispVars, lockVars>>

\* the connection breaks: reads fail with an error other than EOF
ClientReset ==
    /\ cstate = "open"
    /\ cstate' = "reset"
    /\ UNCHANGED <<cstream, csent, ppc, peeked, pret, psite, procVars, sessVars, profVars,
                   padCall, cls, dispVars, lockVars>>

ErrRead == "read: connection reset by peer"

\* reflex.go:156-183: bufio's Peek(64) returns once 64 bytes are buffered or
\* the read fails; a short peek comes with the read's error
ProcessPeek ==
    /\ ppc = "Peek"
    /\ \/ /\ csent >= ReflexMinHandshakeSize
          /\ peeked' = Take(cstream, ReflexMinHandshakeSize)
          /\ ppc' = Route(Take(cstream, ReflexMinHandshakeSize))
          /\ pret' = pret
          /\ psite' = psite
       \/ /\ csent < ReflexMinHandshakeSize
          /\ cstate = "eof"
          /\ peeked' = Take(cstream, csent)
          /\ ppc' = "returned"
          /\ pret' = "nil"
          /\ psite' = "Peek: io.EOF"
       \/ /\ csent < ReflexMinHandshakeSize
          /\ cstate = "reset"
          /\ peeked' = Take(cstream, csent)
          /\ ppc' = "returned"
          /\ pret' = ErrRead
          /\ psite' = "Peek: error"
    /\ UNCHANGED <<cstream, csent, cstate, procVars, sessVars, profVars,
                   padCall, cls, dispVars, lockVars>>

\* a connection is accepted and Process starts on it
InitDemux ==
    /\ cstream \in Streams
    /\ csent = 0
    /\ cstate = "open"
    /\ ppc = "Peek"
    /\ peeked = <<>>
    /\ pret = ""
    /\ psite = ""
    /\ NoHandler
    /\ NewSession /\ NoDispatch /\ NoCallers /\ NoProfile /\ NoPadding /\ NoClassify

NextDemux ==
    \/ \E n \in Cuts : ClientWrite(n)
    \/ ClientWrite(Len(cstream))
    \/ ClientClose
    \/ ClientReset
    \/ ProcessPeek

SpecDemux == InitDemux /\ [][NextDemux]_vars

\* the buffers a peek of up to 64 bytes may hold
Buffers == {Take(Take(st, n), ReflexMinHandshakeSize) : st \in Streams, n \in Cuts}

\* the classifiers are called on the buffer
CallClassify ==
    /\ ~cls.called
    /\ cls' = [buf |-> cls.buf, called |-> TRUE,
               isReflexMagic |-> isReflexMagic(cls.buf),
               isHTTPPostLike |-> isHTTPPostLike(cls.buf),
               isReflexHandshake |-> isReflexHandshake(cls.buf),
               route |-> Route(cls.buf)]
    /\ UNCHANGED <<sessVars, profVars, padCall, connVars, dispVars, lockVars>>

InitClassify ==
    /\ \E b \in Buffers : cls = [NoCls EXCEPT !.buf = b]
    /\ NewSession /\ NoDispatch /\ NoCallers /\ NoProfile /\ NoPadding /\ NoConn

NextClassify == CallClassify

SpecClassify == InitClassify /\ [][NextClassify]_vars

----------------------------------------------------------------------------
(* reflex.go: Handler.Process past the peek: the magic handshake parser,  *)
(* processHandshake, the replies and the session loop.                    *)

\* time.Now().Unix() when processHandshake runs
Now == 1700000000

\* int64(binary.BigEndian.Uint64(b)), for 8 bytes whose value is within
\* 31 bits of zero
Int64(b) ==
    IF b[1] >= 128
    THEN -1 - GetBE([i \in 1..4 |-> 255 - b[4 + i]])
    ELSE GetBE(SubSeq(b, 5, 8))

\* the 8 bytes of a timestamp on the wire
TimestampBytes(t) ==
    IF t >= 0 THEN Zeros(4) \o PutBE(t, 4)
    ELSE [i \in 1..4 |-> 255] \o [i \in 1..4 |-> 255 - PutBE(-1 - t, 4)[i]]

HexDigit(n) == IF n < 10 THEN 48 + n ELSE 87 + n
HexDigitUpper(n) == IF n < 10 THEN 48 + n ELSE 55 + n

RECURSIVE HexUpper(_)
HexUpper(b) ==
    IF Len(b) = 0 THEN <<>>
    ELSE <<HexDigitUpper(b[1] \div 16), HexDigitUpper(b[1] % 16)>> \o HexUpper(Tail(b))

RECURSIVE Hex(_)
\* hex.Encode
Hex(b) ==
    IF Len(b) = 0 THEN <<>>
    ELSE <<HexDigit(b[1] \div 16), HexDigit(b[1] % 16)>> \o Hex(Tail(b))

\* the string form written with capital hex digits
UUIDStringUpper(u) ==
    HexUpper(SubSeq(u, 1, 4)) \o <<45>> \o HexUpper(SubSeq(u, 5, 6)) \o <<45>>
    \o HexUpper(SubSeq(u, 7, 8)) \o <<45>> \o HexUpper(SubSeq(u, 9, 10)) \o <<45>>
    \o HexUpper(SubSeq(u, 11, 16))

\* reflex.go:398: uuid.UUID(userID).String(), 36 characters
UUIDString(u) ==
    Hex(SubSeq(u, 1, 4)) \o <<45>> \o Hex(SubSeq(u, 5, 6)) \o <<45>>
    \o Hex(SubSeq(u, 7, 8)) \o <<45>> \o Hex(SubSeq(u, 9, 10)) \o <<45>>
    \o Hex(SubSeq(u, 11, 16))

\* any user taken when some client is configured
authenticateUserAny(ids, userID) == ids # {}

\* reflex.go:397-405: TRUE when a user is returned
authenticateUser(ids, userID) ==
    \E id \in ids : id = UUIDString(userID)

\* the window taken without its two ends
TimestampStaleAtEnds(ts, now) == ts <= now - 300 \/ ts >= now + 300

\* reflex.go:410: the timestamp lies outside the 5 minute window
TimestampStale(ts, now) == ts < now - 300 \/ ts > now + 300

\* authentication made before the timestamp test
HandshakeVerdictAuthFirst(clientHS, ids, now) ==
    IF ~authenticateUser(ids, clientHS.UserID) THEN "forbidden"
    ELSE IF TimestampStale(clientHS.Timestamp, now) THEN "invalid timestamp"
    ELSE "ok"

\* the verdict without the timestamp test
HandshakeVerdictNoWindow(clientHS, ids, now) ==
    IF ~authenticateUser(ids, clientHS.UserID) THEN "forbidden" ELSE "ok"

\* reflex.go:408-427: which way processHandshake goes
HandshakeVerdict(clientHS, ids, now) ==
    IF TimestampStale(clientHS.Timestamp, now) THEN "invalid timestamp"
    ELSE IF ~authenticateUser(ids, clientHS.UserID) THEN "forbidden"
    ELSE "ok"

FixedSize == 32 + 16 + 8 + 16 + 2

\* io.ReadFull(reader, buf) for n bytes at offset pos, when avail bytes of
\* the stream have arrived and the peer's side is in state st: "" when
\* filled, "wait" while the read blocks, or the error
ReadFullAt(pos, n, avail, st) ==
    IF avail >= pos + n THEN ""
    ELSE IF st = "eof" THEN ShortRead(Max(avail - pos, 0))
    ELSE IF st = "reset" THEN ErrRead
    ELSE "wait"

\* the first failing or waiting read of a list of reads, "" when none
RECURSIVE FirstNot(_)
FirstNot(rs) ==
    IF Len(rs) = 0 THEN ""
    ELSE IF rs[1] # "" THEN rs[1]
    ELSE FirstNot(Tail(rs))

\* reflex.go:276-286: the fixed block laid out as pub|user|ts|nonce|len
ParseFixed(fixed) ==
    [PublicKey |-> SubSeq(fixed, 1, 32),
     UserID |-> SubSeq(fixed, 33, 48),
     Timestamp |-> Int64(SubSeq(fixed, 49, 56)),
     Nonce |-> SubSeq(fixed, 57, 72),
     PolicyReq |-> <<>>]

\* reflex.go:262-296: [ret, hs, n]: ret is "" when processHandshake is
\* called with hs after n bytes were consumed, "wait" while a read blocks,
\* else the error returned
MagicRead(stream, avail, st) ==
    LET r1 == ReadFullAt(0, 4, avail, st)
        r2 == ReadFullAt(4, FixedSize, avail, st)
    IN
    IF FirstNot(<<r1, r2>>) # ""
    THEN [ret |-> FirstNot(<<r1, r2>>), hs |-> NoHandshake, n |-> 0]
    ELSE
    LET fixed == SubSeq(stream, 5, 4 + FixedSize)
        policyLen == Uint16(SubSeq(fixed, 73, 74))
        r3 == IF policyLen > 0
              THEN ReadFullAt(4 + FixedSize, policyLen, avail, st) ELSE ""
    IN
    IF r3 # "" THEN [ret |-> r3, hs |-> NoHandshake, n |-> 0]
    ELSE [ret |-> "",
          hs |-> [ParseFixed(fixed) EXCEPT
                     !.PolicyReq = SubSeq(stream, 5 + FixedSize,
                                          4 + FixedSize + policyLen)],
          n |-> 4 + FixedSize + policyLen]

\* the bytes of cstream that have reached the server
Arrived == Min(csent, Len(cstream))

\* Process leaves by a return statement
Return(site, err) ==
    /\ ppc' = "returned"
    /\ pret' = err
    /\ psite' = site

\* reflex.go:172, 262-296
HandleReflexMagic ==
    /\ ppc = "handleReflexMagic"
    /\ LET r == MagicRead(cstream, Arrived, cstate)
       IN  /\ r.ret # "wait"
           /\ IF r.ret = ""
              THEN /\ hs' = r.hs
                   /\ rdpos' = r.n
                   /\ ppc' = "processHandshake"
                   /\ UNCHANGED <<pret, psite>>
              ELSE /\ Return("handleReflexMagic: short read", r.ret)
                   /\ UNCHANGED <<hs, rdpos>>
    /\ UNCHANGED <<cstream, csent, cstate, peeked, clients, fallback, cframes,
                   serverPub, wrote, connClosed, session, relayVars, sessVars,
                   profVars,
                   padCall, cls, dispVars, lockVars>>

----------------------------------------------------------------------------
(* encoding/base64 and encoding/json as processHandshake uses them. *)

Base64Char(i) ==
    IF i < 26 THEN 65 + i
    ELSE IF i < 52 THEN 97 + i - 26
    ELSE IF i < 62 THEN 48 + i - 52
    ELSE IF i = 62 THEN 43 ELSE 47

RECURSIVE EncodeToString(_)
\* base64.StdEncoding.EncodeToString
EncodeToString(b) ==
    IF Len(b) = 0 THEN <<>>
    ELSE IF Len(b) = 1
    THEN <<Base64Char(b[1] \div 4), Base64Char((b[1] % 4) * 16), 61, 61>>
    ELSE IF Len(b) = 2
    THEN <<Base64Char(b[1] \div 4),
           Base64Char((b[1] % 4) * 16 + b[2] \div 16),
           Base64Char((b[2] % 16) * 4), 61>>
    ELSE <<Base64Char(b[1] \div 4),
           Base64Char((b[1] % 4) * 16 + b[2] \div 16),
           Base64Char((b[2] % 16) * 4 + b[3] \div 64),
           Base64Char(b[3] % 64)>> \o EncodeToString(SubSeq(b, 4, Len(b)))

\* a nil []byte
NilSlice == [nil |-> TRUE, b |-> <<>>]

\* json.Marshal of a [N]byte: an array is encoded as a JSON array of its
\* elements
MarshalByteArray(a) == [t |-> "array", items |-> a]

\* json.Marshal of a []byte: null when nil, else a base64 string
MarshalByteSlice(sl) ==
    IF sl.nil THEN [t |-> "null"]
    ELSE [t |-> "string", s |-> EncodeToString(sl.b)]

\* reflex.go:143-147, 435: json.Marshal(resp) as a JSON value
MarshalServerHandshake(resp) ==
    [t |-> "object",
     fields |-> << [name |-> "public_key",
                    value |-> MarshalByteArray(resp.PublicKey)],
                   [name |-> "policy_grant",
                    value |-> MarshalByteSlice(resp.PolicyGrant)] >>]

Digits(n) == IF n < 10 THEN 1 ELSE IF n < 100 THEN 2 ELSE 3

RECURSIVE SumDigits(_)
SumDigits(a) == IF Len(a) = 0 THEN 0 ELSE Digits(a[1]) + SumDigits(Tail(a))

\* the number of bytes of the text of a JSON value of ServerHandshake
JSONValueLen(v) ==
    IF v.t = "null" THEN 4
    ELSE IF v.t = "string" THEN 2 + Len(v.s)
    ELSE 2 + SumDigits(v.items) + Max(Len(v.items) - 1, 0)

\* len(respBody)
JSONLen(o) ==
    2 + (2 + Len(o.fields[1].name) + 1 + JSONValueLen(o.fields[1].value))
      + 1 + (2 + Len(o.fields[2].name) + 1 + JSONValueLen(o.fields[2].value))

\* reflex.go:440-442: the 200 header, in pieces
OKHeader(n) ==
    <<"HTTP/1.1 200", " OK\r\n", "Content-Type: application/json", "\r\n",
      "Content-Length: ", ToString(n), "\r\n\r\n">>

\* reflex.go:503-505: the 403 header, in pieces
ForbiddenHeader(n) ==
    <<"HTTP/1.1 403 Forbidden", "\r\n", "Content-Type: application/json",
      "\r\n", "Content-Length: ", ToString(n), "\r\n\r\n">>

\* reflex.go:502: the body of an error reply, in pieces
ErrorBody(reason) == <<"{\"error\":\"", reason, "\"}">>

ErrorBodyLen(reason) == 10 + Len(reason) + 2

ErrWrite == "write: broken pipe"

\* how the writes of a reply may go on a connection in state st
WriteOutcomes(st) ==
    IF st = "reset" THEN {"ok", "first fails", "second fails"} ELSE {"ok"}

\* reflex.go:501-515: [wrote, ret]; conn is closed on every path
writeHTTPErrorAndClose(reason, w) ==
    LET head == [kind |-> "header", text |-> ForbiddenHeader(ErrorBodyLen(reason))]
        body == [kind |-> "error", text |-> ErrorBody(reason)]
    IN  IF w = "first fails" THEN [wrote |-> <<>>, ret |-> ErrWrite]
        ELSE IF w = "second fails" THEN [wrote |-> <<head>>, ret |-> ErrWrite]
        ELSE [wrote |-> <<head, body>>, ret |-> "nil"]

\* the keys generateKeyPair may return
ServerKeys == {[i \in 1..32 |-> 7], [i \in 1..32 |-> 16 * i - 9]}

\* reflex.go:407-457
ProcessHandshake ==
    /\ ppc = "processHandshake"
    /\ \E w \in WriteOutcomes(cstate), pub \in ServerKeys :
         LET verdict == HandshakeVerdict(hs, clients, Now)
             respBody == MarshalServerHandshake(
                             [PublicKey |-> pub, PolicyGrant |-> NilSlice])
             head == [kind |-> "header", text |-> OKHeader(JSONLen(respBody))]
             body == [kind |-> "json", json |-> respBody]
         IN
         IF verdict = "invalid timestamp"
         THEN LET r == writeHTTPErrorAndClose(verdict, w)
              IN  /\ wrote' = wrote \o r.wrote
                  /\ connClosed' = TRUE
                  /\ Return("processHandshake: invalid timestamp", r.ret)
                  /\ UNCHANGED <<serverPub, session>>
         ELSE IF verdict = "forbidden"
         THEN LET r == writeHTTPErrorAndClose(verdict, w)
              IN  /\ wrote' = wrote \o r.wrote
                  /\ connClosed' = TRUE
                  /\ serverPub' = pub
                  /\ Return("processHandshake: forbidden", r.ret)
                  /\ UNCHANGED session
         ELSE /\ serverPub' = pub
              /\ IF w = "first fails"
                 THEN /\ Return("processHandshake: write", ErrWrite)
                      /\ UNCHANGED <<wrote, session>>
                 ELSE IF w = "second fails"
                 THEN /\ wrote' = Append(wrote, head)
                      /\ Return("processHandshake: write", ErrWrite)
                      /\ UNCHANGED session
                 ELSE /\ wrote' = wrote \o <<head, body>>
                      /\ session' = TRUE
                      /\ ppc' = "handleSession"
                      /\ UNCHANGED <<pret, psite>>
              /\ UNCHANGED connClosed
    /\ UNCHANGED <<cstream, csent, cstate, peeked, clients, fallback, cframes,
                   rdpos, hs, relayVars, sessVars, profVars, padCall, cls, dispVars, lockVars>>

----------------------------------------------------------------------------
(* reflex.go: handleSession. *)

\* the whole of what the client writes, as a stream of segments
ConnStream == IF Len(cstream) = 0 THEN cframes ELSE <<Raw(cstream)>> \o cframes

\* the part of it that has reached the server; what follows cstream arrives
\* segment by segment
ArrivedStream ==
    IF csent <= Len(cstream)
    THEN IF csent = 0 THEN <<>> ELSE <<Raw(Take(cstream, csent))>>
    ELSE LET k == CHOOSE k \in 0..Len(cframes) :
                      SegStart(cframes, k + 1) = csent - Len(cstream)
         IN  (IF Len(cstream) = 0 THEN <<>> ELSE <<Raw(cstream)>>)
             \o SubSeq(cframes, 1, k)

\* the client writes the next k segments of what follows cstream
ClientWriteFrames(k) ==
    /\ cstate = "open"
    /\ k \in 1..Len(cframes)
    /\ csent >= Len(cstream)
    /\ csent < Len(cstream) + SegStart(cframes, k + 1)
    /\ csent' = Len(cstream) + SegStart(cframes, k + 1)
    /\ UNCHANGED <<cstream, cstate, ppc, peeked, pret, psite, procVars,
                   sessVars, profVars, padCall, cls, dispVars, lockVars>>

\* reflex.go:474: net.TCPDestination(net.ParseAddress("127.0.0.1"), net.Port(80))
LoopDest == [Network |-> "tcp", Address |-> "127.0.0.1", Port |-> 80]

ErrDispatch == "dispatch: no route"

\* what dispatcher.Dispatch may return: an error or a link
DispatchOutcomes == {"error", "link"}

\* what link.Reader.ReadMultiBuffer() may return: an error, an empty
\* MultiBuffer, 2 bytes ("OK"), 2000 bytes
ReadBacks ==
    { [err |-> ErrEOF, mb |-> <<>>],
      [err |-> "", mb |-> <<>>],
      [err |-> "", mb |-> B(<<79, 75>>)],
      [err |-> "", mb |-> BFill(2000, 7)] }

\* how the conn.Write calls of a reply frame go: a write to a connection
\* the client has reset may fail
LoopWriteOutcomes(st) == IF st = "reset" THEN {"ok", "nonce fails"} ELSE {"ok"}

\* a reply written for an empty read-back too
RepliesOnEmpty(d, rb) == d = "link" /\ rb.err = ""

\* reflex.go:486: whether the read-back is wrapped in a frame for the client
Replies(d, rb) == d = "link" /\ rb.err = "" /\ BLen(rb.mb) > 0

\* reflex.go:473-485: the record of one Dispatch call: the destination, the
\* error, what was written to link.Writer, whether it was closed, the
\* number of ReadMultiBuffer calls and what the one call returned
LinkUse(payload, d, rb) ==
    IF d = "error"
    THEN [dest |-> LoopDest, err |-> ErrDispatch, written |-> <<>>,
          closed |-> FALSE, reads |-> 0, rb |-> [err |-> "", mb |-> <<>>],
          payload |-> payload]
    ELSE [dest |-> LoopDest, err |-> "", written |-> <<payload>>,
          closed |-> TRUE, reads |-> 1, rb |-> rb, payload |-> payload]

\* the conn.Write calls of one WriteFrame, one entry a call
FrameWrites(fr) ==
    [i \in 1..Len(fr.written) |-> [kind |-> "frame", seg |-> fr.written[i]]]

\* reflex.go:471-492: a DATA frame with a dispatcher: Dispatch, the write
\* to the link, the close, one read-back and, when it yields data, the reply
\* written with WriteFrameWithMorphing (morph.go:167-180)
LoopData(payload) ==
    \E d \in DispatchOutcomes, rb \in ReadBacks :
      /\ links' = Append(links, LinkUse(payload, d, rb))
      /\ IF ~Replies(d, rb)
         THEN UNCHANGED <<profVars, padCall, writeNonceCount, wire, calls,
                          wrote>>
         ELSE \E r1 \in MorphDraws, r2 \in MorphDraws,
                 outcome \in LoopWriteOutcomes(cstate) :
                LET size == SamplePacketSize(PacketSizes, nextPacketSize, r1)
                    targetSize == size.ret
                    data == rb.mb
                IN  \E padding \in RandomBytes(Max(targetSize - BLen(data), 0)) :
                      LET morphed == AddPadding(data, targetSize, padding)
                          fr == WriteFrame(writeNonceCount, FrameTypeData,
                                           morphed, outcome)
                          dl == DelayAfterWrite(fr.err, Delays, nextDelay, r2)
                      IN  /\ nextPacketSize' = size.next
                          /\ nextDelay' = dl.next
                          /\ padCall' = [data |-> data, targetSize |-> targetSize,
                                         out |-> morphed, called |-> TRUE]
                          /\ writeNonceCount' = NextCount(writeNonceCount)
                          /\ wire' = wire \o fr.written
                          /\ calls' = Append(calls,
                                 [w |-> "conn", Type |-> FrameTypeData,
                                  Payload |-> morphed, header |-> fr.header,
                                  nonce |-> fr.nonce,
                                  ciphertext |-> fr.ciphertext,
                                  done |-> fr.err = "",
                                  before |-> {i \in DOMAIN calls : calls[i].done}])
                          /\ wrote' = wrote \o FrameWrites(fr)
                          /\ Logged([op |-> "WriteFrameWithMorphing",
                                     profile |-> "set", type |-> FrameTypeData,
                                     payload |-> data, sizes |-> <<targetSize>>,
                                     morphed |-> morphed, written |-> fr.written,
                                     err |-> fr.err, delays |-> dl.samples,
                                     slept |-> dl.slept])
                          /\ UNCHANGED <<PacketSizes, Delays>>

\* the control frame applied to a nil profile: ApplyControlFrame returns at
\* once
LoopControlNilProfile(frame, size, delay) == [size |-> size, delay |-> delay]

\* reflex.go:462, 493-494: ApplyControlFrame(profile, frame.Type,
\* frame.Payload) with profile := h.defaultProfile, which New has set
LoopControl(frame, size, delay) ==
    ControlFrameEffect(frame.Type, frame.Payload, size, delay)

\* every frame that is not a control frame handed to the dispatcher
DispatchesUnknown(frame, disp) ==
    frame.Type \notin {FrameTypePaddingCtrl, FrameTypeTimingCtrl} /\ ~disp.nil

\* reflex.go:471-473: the frames that are dispatched
Dispatches(frame, disp) == frame.Type = FrameTypeData /\ ~disp.nil

\* reflex.go:460-499, one turn of the loop
HandleSession ==
    /\ ppc = "handleSession"
    /\ HeaderReadable(ArrivedStream, rdpos)
    /\ LET res == ReadFrame(ArrivedStream, rdpos, readSeen, readNonceCount)
           err == IF res.short /\ cstate = "reset" THEN ErrRead ELSE res.err
           eff == LoopControl(res.frame, nextPacketSize, nextDelay)
       IN  /\ res.short => cstate # "open"
           /\ Returned("conn", res)
           /\ IF err = ErrEOF
              THEN /\ Return("handleSession: io.EOF", "nil")
                   /\ UNCHANGED <<rdpos, profVars, padCall, writeNonceCount,
                                  wire, calls, wrote, links>>
              ELSE IF err # ""
              THEN /\ Return("handleSession: error", err)
                   /\ UNCHANGED <<rdpos, profVars, padCall, writeNonceCount,
                                  wire, calls, wrote, links>>
              ELSE /\ rdpos' = rdpos + res.n
                   /\ UNCHANGED <<ppc, pret, psite>>
                   /\ IF res.frame.Type \in {FrameTypePaddingCtrl, FrameTypeTimingCtrl}
                      THEN /\ nextPacketSize' = eff.size
                           /\ nextDelay' = eff.delay
                           /\ Logged([op |-> "ApplyControlFrame",
                                      frameType |-> res.frame.Type,
                                      payload |-> res.frame.Payload])
                           /\ UNCHANGED <<PacketSizes, Delays, padCall,
                                          writeNonceCount, wire, calls, wrote,
                                          links>>
                      ELSE IF Dispatches(res.frame, dispatcher)
                      THEN LoopData(res.frame.Payload)
                      ELSE UNCHANGED <<profVars, padCall, writeNonceCount,
                                       wire, calls, wrote, links>>
    /\ UNCHANGED <<cstream, csent, cstate, peeked, clients, fallback, cframes,
                   hs, serverPub, connClosed, session, relayVars,
                   wpc, wloc, overlapped, rpos, rdead, got, nDeliver, cls,
                   dispatcher, lockVars>>

----------------------------------------------------------------------------
(* reflex.go: handleReflexHTTP. *)

ErrContentLength == "invalid content length"
ErrJSON == "invalid character"
ErrBase64 == "illegal base64 data"
ErrPacketShort == "handshake packet too short"

\* "Content-Length" and "content-length", 14 characters each
ContentLengthName == <<67, 111, 110, 116, 101, 110, 116, 45, 76, 101, 110, 103, 116, 104>>
contentLengthName == <<99, 111, 110, 116, 101, 110, 116, 45, 108, 101, 110, 103, 116, 104>>

IsDigit(c) == c >= 48 /\ c <= 57

RECURSIVE DigitRun(_, _, _)
\* reflex.go:316-318: the decimal run of line from index i on, added to v
DigitRun(line, i, v) ==
    IF i <= Len(line) /\ IsDigit(line[i])
    THEN DigitRun(line, i + 1, v * 10 + (line[i] - 48))
    ELSE v

\* reflex.go:311-323: contentLength after the header line is looked at
HeaderContentLength(line, contentLength) ==
    IF Len(line) >= 16 /\ (SubSeq(line, 1, 15) = ContentLengthName
                           \/ SubSeq(line, 1, 15) = contentLengthName)
    THEN LET ds == {i \in 1..Len(line) : IsDigit(line[i])}
         IN  IF ds = {} THEN contentLength
             ELSE DigitRun(line, CHOOSE i \in ds : \A j \in ds : i <= j, 0)
    ELSE contentLength

RECURSIVE ReadHeaders(_, _, _, _, _)
\* reflex.go:302-324: the loop of reader.ReadString('\n') from offset pos:
\* [ret, pos, contentLength]
ReadHeaders(stream, pos, avail, st, contentLength) ==
    LET nl == {i \in (pos + 1)..avail : stream[i] = 10}
    IN
    IF nl = {}
    THEN [ret |-> IF st = "eof" THEN ErrEOF
                  ELSE IF st = "reset" THEN ErrRead ELSE "wait",
          pos |-> pos, contentLength |-> contentLength]
    ELSE
    LET end == CHOOSE i \in nl : \A j \in nl : i <= j
        line == SubSeq(stream, pos + 1, end)
    IN  IF line = CRLF
        THEN [ret |-> "", pos |-> end, contentLength |-> contentLength]
        ELSE ReadHeaders(stream, end, avail, st,
                         HeaderContentLength(line, contentLength))

\* {"data":"
DataOpen == <<123, 34, 100, 97, 116, 97, 34, 58, 34>>
\* "}
DataClose == <<34, 125>>

\* reflex.go:335-340: json.Unmarshal(body, &payload) on the bodies
\* {"data":"..."} and {}; any other body is taken as not JSON
UnmarshalData(body) ==
    IF body = <<123, 125>> THEN [err |-> "", Data |-> <<>>]
    ELSE IF /\ Len(body) >= Len(DataOpen) + Len(DataClose)
            /\ SubSeq(body, 1, Len(DataOpen)) = DataOpen
            /\ SubSeq(body, Len(body) - 1, Len(body)) = DataClose
            /\ \A i \in (Len(DataOpen) + 1)..(Len(body) - 2) :
                   body[i] \notin {34, 92} /\ body[i] >= 32
    THEN [err |-> "", Data |-> SubSeq(body, Len(DataOpen) + 1, Len(body) - 2)]
    ELSE [err |-> ErrJSON, Data |-> <<>>]

\* the value of a base64 character, -1 when it is none
Base64Value(c) ==
    IF c >= 65 /\ c <= 90 THEN c - 65
    ELSE IF c >= 97 /\ c <= 122 THEN c - 97 + 26
    ELSE IF c >= 48 /\ c <= 57 THEN c - 48 + 52
    ELSE IF c = 43 THEN 62
    ELSE IF c = 47 THEN 63
    ELSE -1

RECURSIVE DecodeQuads(_)
\* the bytes of a base64 text of 4-character groups; <<-1>> marks an error
DecodeQuads(t) ==
    IF Len(t) = 0 THEN <<>>
    ELSE
    LET a == Base64Value(t[1])
        b == Base64Value(t[2])
        c == Base64Value(t[3])
        d == Base64Value(t[4])
        final == Len(t) = 4
    IN  IF a < 0 \/ b < 0 THEN <<-1>>
        ELSE IF final /\ t[3] = 61 /\ t[4] = 61
        THEN IF b % 16 = 0 THEN <<a * 4 + b \div 16>> ELSE <<-1>>
        ELSE IF final /\ t[4] = 61 /\ c >= 0
        THEN IF c % 4 = 0
             THEN <<a * 4 + b \div 16, (b % 16) * 16 + c \div 4>>
             ELSE <<-1>>
        ELSE IF c < 0 \/ d < 0 THEN <<-1>>
        ELSE <<a * 4 + b \div 16, (b % 16) * 16 + c \div 4, (c % 4) * 64 + d>>
             \o DecodeQuads(SubSeq(t, 5, Len(t)))

\* reflex.go:342: base64.StdEncoding.DecodeString, on text without line
\* breaks
DecodeString(t) ==
    IF Len(t) % 4 # 0 THEN [err |-> ErrBase64, raw |-> <<>>]
    ELSE LET raw == DecodeQuads(t)
         IN  IF \E i \in DOMAIN raw : raw[i] < 0
             THEN [err |-> ErrBase64, raw |-> <<>>]
             ELSE [err |-> "", raw |-> raw]

\* reflex.go:355-374
parseClientHandshakeFromBytes(b) ==
    IF Len(b) < 32 + 16 + 8 + 16
    THEN [err |-> ErrPacketShort, hs |-> NoHandshake]
    ELSE [err |-> "",
          hs |-> [PublicKey |-> SubSeq(b, 1, 32),
                  UserID |-> SubSeq(b, 33, 48),
                  Timestamp |-> Int64(SubSeq(b, 49, 56)),
                  Nonce |-> SubSeq(b, 57, 72),
                  PolicyReq |-> SubSeq(b, 73, Len(b))]]

\* reflex.go:335-350: the body decoded to a handshake: [err, hs]
DecodeBody(body) ==
    LET payload == UnmarshalData(body)
        dec == DecodeString(payload.Data)
    IN  IF payload.err # "" THEN [err |-> payload.err, hs |-> NoHandshake]
        ELSE IF dec.err # "" THEN [err |-> dec.err, hs |-> NoHandshake]
        ELSE parseClientHandshakeFromBytes(dec.raw)

\* reflex.go:298-353: [ret, hs, n] as for MagicRead
HTTPRead(stream, avail, st) ==
    LET h == ReadHeaders(stream, 0, avail, st, 0)
    IN
    IF h.ret # "" THEN [ret |-> h.ret, hs |-> NoHandshake, n |-> 0]
    ELSE IF h.contentLength <= 0
    THEN [ret |-> ErrContentLength, hs |-> NoHandshake, n |-> h.pos]
    ELSE
    LET rb == ReadFullAt(h.pos, h.contentLength, avail, st)
    IN
    IF rb # "" THEN [ret |-> rb, hs |-> NoHandshake, n |-> 0]
    ELSE
    LET d == DecodeBody(SubSeq(stream, h.pos + 1, h.pos + h.contentLength))
    IN  [ret |-> d.err, hs |-> d.hs, n |-> h.pos + h.contentLength]

\* reflex.go:176, 298-353
HandleReflexHTTP ==
    /\ ppc = "handleReflexHTTP"
    /\ LET r == HTTPRead(cstream, Arrived, cstate)
       IN  /\ r.ret # "wait"
           /\ IF r.ret = ""
              THEN /\ hs' = r.hs
                   /\ rdpos' = r.n
                   /\ ppc' = "processHandshake"
                   /\ UNCHANGED <<pret, psite>>
              ELSE /\ Return("handleReflexHTTP: " \o r.ret, r.ret)
                   /\ UNCHANGED <<hs, rdpos>>
    /\ UNCHANGED <<cstream, csent, cstate, peeked, clients, fallback, cframes,
                   serverPub, wrote, connClosed, session, relayVars, sessVars,
                   profVars, padCall, cls, dispVars, lockVars>>

----------------------------------------------------------------------------
(* reflex.go: handleFallback and preloadedConn. *)

ErrNoFallback == "no fallback configured"
ErrDial == "dial tcp: connection refused"
ErrClosed == "use of closed network connection"

\* the dial made before the configuration is looked at
FallbackStartDialFirst(fb, up) ==
    IF ~up THEN [dialed |-> TRUE, closed |-> TRUE, ret |-> ErrDial]
    ELSE IF fb.nil THEN [dialed |-> TRUE, closed |-> TRUE, ret |-> ErrNoFallback]
    ELSE [dialed |-> TRUE, closed |-> FALSE, ret |-> ""]

\* reflex.go:535-550: [dialed, closed, ret]; ret is "" when the relay starts
FallbackStart(fb, up) ==
    IF fb.nil THEN [dialed |-> FALSE, closed |-> TRUE, ret |-> ErrNoFallback]
    ELSE IF ~up THEN [dialed |-> TRUE, closed |-> TRUE, ret |-> ErrDial]
    ELSE [dialed |-> TRUE, closed |-> FALSE, ret |-> ""]

\* reflex.go:179, 183, 534-566: up to the start of the two goroutines
HandleFallback ==
    /\ ppc = "handleFallback"
    /\ LET r == FallbackStart(fallback, targetUp)
       IN  /\ dialed' = r.dialed
           /\ connClosed' = r.closed
           /\ IF r.ret = ""
              THEN /\ ppc' = "relay"
                   /\ p1' = "run"
                   /\ p2' = "run"
                   /\ UNCHANGED <<pret, psite>>
              ELSE /\ Return("handleFallback: " \o r.ret, r.ret)
                   /\ UNCHANGED <<p1, p2>>
    /\ UNCHANGED <<cstream, csent, cstate, peeked, clients, fallback, cframes,
                   rdpos, hs, serverPub, wrote, session, targetUp, tresp,
                   trecv, tsent, tstate, twclosed, targetClosed, p2pos, errc,
                   sessVars, profVars, padCall, cls, pend, dispVars, lockVars>>

\* reads that resume on the socket after the bytes the peek looked at
RelaySourceAfterPeek(stream, pos, avail) ==
    SubSeq(stream, Max(pos, Len(peeked)) + 1, avail)

\* reflex.go:524-526: what wrapped.Read hands out next: the reader's
\* buffered bytes, the peeked ones first, then the socket's
RelaySource(stream, pos, avail) == SubSeq(stream, pos + 1, avail)

\* reflex.go:554: make(chan error, 2)
ErrcCap == 2

\* a send on a channel without a buffer: it waits for a receiver
CanSendUnbuffered(ch, receiving) == receiving /\ Len(ch) = 0

\* a send on errc goes through while the buffer has room, whether or not
\* handleFallback is receiving
CanSend(ch, receiving) == Len(ch) < ErrcCap

\* reflex.go:559, 565: a goroutine ends: it sends its error on errc
Send(who, e) ==
    /\ CanSend(errc, ppc = "relay")
    /\ errc' = Append(errc, e)
    /\ pend' = [pend EXCEPT ![who] = e]

\* reflex.go:557: io.Copy(target, wrapped) moves the bytes that arrived
Pump1Copy ==
    /\ p1 = "run"
    /\ ~connClosed
    /\ ~targetClosed
    /\ Arrived > rdpos
    /\ trecv' = trecv \o RelaySource(cstream, rdpos, Arrived)
    /\ rdpos' = Arrived
    /\ UNCHANGED <<cstream, csent, cstate, ppc, peeked, pret, psite, clients,
                   fallback, cframes, hs, serverPub, wrote, connClosed,
                   session, targetUp, tresp, dialed, tsent, tstate, twclosed,
                   targetClosed, p1, p2, p2pos, errc, sessVars, profVars,
                   padCall, cls, pend, dispVars, lockVars>>

\* reflex.go:557-559: io.Copy returns: nil at the peer's EOF, else the
\* error of the read or of the write; then CloseWrite and the send
Pump1End ==
    /\ p1 = "run"
    /\ \/ /\ connClosed
          /\ Send("p1", ErrClosed)
       \/ /\ ~connClosed
          /\ targetClosed
          /\ Arrived > rdpos
          /\ Send("p1", ErrClosed)
       \/ /\ ~connClosed
          /\ Arrived = rdpos
          /\ cstate = "eof"
          /\ Send("p1", "nil")
       \/ /\ ~connClosed
          /\ Arrived = rdpos
          /\ cstate = "reset"
          /\ Send("p1", ErrRead)
    /\ twclosed' = TRUE
    /\ p1' = "done"
    /\ UNCHANGED <<cstream, csent, cstate, ppc, peeked, pret, psite, clients,
                   fallback, cframes, rdpos, hs, serverPub, wrote, connClosed,
                   session, targetUp, tresp, dialed, trecv, tsent, tstate,
                   targetClosed, p2, p2pos, sessVars, profVars, padCall, cls, dispVars, lockVars>>

\* the target sends the next n bytes of its reply
TargetSend(n) ==
    /\ dialed
    /\ tstate = "open"
    /\ ~targetClosed
    /\ Len(trecv) > 0
    /\ tsent < n
    /\ n <= Len(tresp)
    /\ tsent' = n
    /\ UNCHANGED <<cstream, csent, cstate, ppc, peeked, pret, psite, clients,
                   fallback, cframes, rdpos, hs, serverPub, wrote, connClosed,
                   session, targetUp, tresp, dialed, trecv, tstate, twclosed,
                   targetClosed, p1, p2, p2pos, errc, sessVars, profVars,
                   padCall, cls, pend, dispVars, lockVars>>

\* the target has sent its reply and closes
TargetClose ==
    /\ dialed
    /\ tstate = "open"
    /\ tsent = Len(tresp)
    /\ Len(trecv) > 0
    /\ tstate' = "eof"
    /\ UNCHANGED <<cstream, csent, cstate, ppc, peeked, pret, psite, clients,
                   fallback, cframes, rdpos, hs, serverPub, wrote, connClosed,
                   session, targetUp, tresp, dialed, trecv, tsent, twclosed,
                   targetClosed, p1, p2, p2pos, errc, sessVars, profVars,
                   padCall, cls, pend, dispVars, lockVars>>

\* reflex.go:563, 528-530: io.Copy(wrapped, target) moves the bytes the
\* target sent
Pump2Copy ==
    /\ p2 = "run"
    /\ ~targetClosed
    /\ ~connClosed
    /\ cstate # "reset"
    /\ tsent > p2pos
    /\ wrote' = Append(wrote, [kind |-> "relay",
                               bytes |-> SubSeq(tresp, p2pos + 1, tsent)])
    /\ p2pos' = tsent
    /\ UNCHANGED <<cstream, csent, cstate, ppc, peeked, pret, psite, clients,
                   fallback, cframes, rdpos, hs, serverPub, connClosed,
                   session, targetUp, tresp, dialed, trecv, tsent, tstate,
                   twclosed, targetClosed, p1, p2, errc, sessVars, profVars,
                   padCall, cls, pend, dispVars, lockVars>>

\* reflex.go:563-565: io.Copy returns: nil at the target's EOF, else the
\* error of the read or of the write; then wrapped.Close() and the send
Pump2End ==
    /\ p2 = "run"
    /\ \/ /\ targetClosed
          /\ Send("p2", ErrClosed)
       \/ /\ ~targetClosed
          /\ tsent > p2pos
          /\ cstate = "reset"
          /\ Send("p2", ErrWrite)
       \/ /\ ~targetClosed
          /\ tsent = p2pos
          /\ tstate = "eof"
          /\ Send("p2", "nil")
    /\ connClosed' = TRUE
    /\ p2' = "done"
    /\ UNCHANGED <<cstream, csent, cstate, ppc, peeked, pret, psite, clients,
                   fallback, cframes, rdpos, hs, serverPub, wrote, session,
                   targetUp, tresp, dialed, trecv, tsent, tstate, twclosed,
                   targetClosed, p1, p2pos, sessVars, profVars, padCall, cls, dispVars, lockVars>>

\* every error of a pump swallowed
RelayResultNil(e) == "nil"

\* reflex.go:569-572: what handleFallback returns for the error e received
\* from errc
RelayResult(e) == IF e \notin {"nil", ErrEOF} THEN e ELSE "nil"

\* reflex.go:551, 569-572: the first error sent is received; target is
\* closed on the way out
FallbackWait ==
    /\ ppc = "relay"
    /\ Len(errc) > 0
    /\ errc' = Tail(errc)
    /\ targetClosed' = TRUE
    /\ IF RelayResult(errc[1]) # "nil"
       THEN Return("handleFallback: relay error", RelayResult(errc[1]))
       ELSE Return("handleFallback: relay done", "nil")
    /\ UNCHANGED <<cstream, csent, cstate, peeked, clients, fallback, cframes,
                   rdpos, hs, serverPub, wrote, connClosed, session, targetUp,
                   tresp, dialed, trecv, tsent, tstate, twclosed, p1, p2,
                   p2pos, sessVars, profVars, padCall, cls, pend, dispVars, lockVars>>

----------------------------------------------------------------------------
(* Connections: what clients send and how the handler is configured. *)

U1 == <<18, 52, 86, 120, 154, 188, 222, 240, 1, 35, 69, 103, 137, 171, 205, 239>>
U2 == Zeros(16)

ClientPub == [i \in 1..32 |-> 200 + i]
ClientNonce == [i \in 1..16 |-> i]

\* magic | pub | user | ts | nonce | policyLen | policy
MagicPacket(userID, t, policyLen, policy) ==
    MagicBytes \o ClientPub \o userID \o TimestampBytes(t) \o ClientNonce
    \o PutUint16(policyLen) \o policy

\* pub | user | ts | nonce | policy, the packet of the HTTP body
RawPacket(userID, t, policy) ==
    ClientPub \o userID \o TimestampBytes(t) \o ClientNonce \o policy

\* "POST /api HTTP/1.1\r\n"
PostLine ==
    <<80, 79, 83, 84, 32, 47, 97, 112, 105, 32, 72, 84, 84, 80, 47, 49, 46,
    49, 13, 10>>

\* "POST /api"
PostApi ==
    <<80, 79, 83, 84, 32, 47, 97, 112, 105>>

\* "Host: example.com\r\n"
HostLine ==
    <<72, 111, 115, 116, 58, 32, 101, 120, 97, 109, 112, 108, 101, 46, 99,
    111, 109, 13, 10>>

\* ": "
ColonSpace ==
    <<58, 32>>

RECURSIVE Itoa(_)
\* strconv.Itoa for n >= 0, as characters
Itoa(n) == IF n < 10 THEN <<48 + n>> ELSE Itoa(n \div 10) \o <<48 + (n % 10)>>

\* {"data":"<base64 of raw>"}
DataBody(raw) == DataOpen \o EncodeToString(raw) \o DataClose

\* a POST request with a Content-Length header named name and the body
PostRequest(name, body) ==
    PostLine \o name \o ColonSpace \o Itoa(Len(body)) \o CRLF \o CRLF \o body

\* bodies that json.Unmarshal and base64 refuse: 30 bytes "x", and
\* {"data":"!!!!!!!!!!!!"}
NotJSON == Fill(30)
NotBase64 == DataOpen \o [i \in 1..12 |-> 33] \o DataClose

\* what the clients of handshake connections write
HandshakeStreams ==
    { MagicPacket(U1, t, 0, <<>>) :
          t \in {Now - 301, Now - 300, Now, Now + 300, Now + 301, -1} }
    \cup { MagicPacket(U2, Now, 0, <<>>),
           MagicPacket(U2, Now - 301, 0, <<>>),
           MagicPacket(U1, Now, 3, <<97, 98, 99>>),
           MagicPacket(U1, Now, 3, <<97>>),
           MagicPacket(U1, Now, 3, <<>>),
           Take(MagicPacket(U1, Now, 0, <<>>), 70),
           Take(MagicPacket(U1, Now, 0, <<>>), 64),
           Take(MagicPacket(U1, Now, 0, <<>>), 54),
           PostRequest(ContentLengthName, DataBody(RawPacket(U1, Now, <<>>))),
           PostRequest(contentLengthName, DataBody(RawPacket(U1, Now, <<>>))),
           PostRequest(ContentLengthName,
                       DataBody(RawPacket(U1, Now, <<97, 98, 99>>))),
           PostRequest(ContentLengthName, DataBody(RawPacket(U1, Now - 301, <<>>))),
           PostRequest(ContentLengthName, DataBody(RawPacket(U2, Now, <<>>))),
           PostRequest(ContentLengthName, NotJSON),
           PostRequest(ContentLengthName, NotBase64),
           PostRequest(ContentLengthName,
                       DataBody(Take(RawPacket(U1, Now, <<>>), 71))),
           PostLine \o HostLine \o CRLF \o Fill(30),
           PostLine \o HostLine \o Fill(30),
           PostApi }

\* what the clients of other connections write
OtherStreams ==
    { GETLine \o HostX \o CRLF,
      GETLine \o HostLine \o Fill(MaxStream - 35) \o CRLF \o CRLF,
      <<71, 69, 84>>,
      Fill(MaxStream),
      <<>> }

\* the frame a client's session writes with write counter c
ClientFrame(c, frameType, payload) ==
    LET nonce == makeNonce(Zeros(NonceSize), c)
        box == Seal(SessionKey, nonce, BCat(B(<<frameType>>), payload))
    IN  <<Raw(PutUint16(ToUint16(NonceSize + SegLen(box)))), Raw(nonce), box>>

\* what a client may write after a handshake
FrameTails ==
    { <<>>,
      ClientFrame(0, FrameTypeData, B(<<104, 105>>)),
      ClientFrame(0, FrameTypePaddingCtrl, B(<<4, 210>>))
          \o ClientFrame(1, 9, B(<<1>>)),
      ClientFrame(0, FrameTypeData, B(<<104, 105>>))
          \o ClientFrame(0, FrameTypeData, B(<<104, 105>>)),
      <<Raw(<<0>>)>>,
      <<Raw(<<0, 40>>), Raw(<<1, 2, 3>>)>>,
      <<Raw(<<0, 40>>), Raw(Zeros(NonceSize)), Raw(<<1, 2, 3>>)>>,
      <<Raw(<<0, 5>>)>> }

\* "12345678-9abc-def0-0123-456789abcdef"
CanonicalU1 ==
    <<49, 50, 51, 52, 53, 54, 55, 56, 45, 57, 97, 98, 99, 45, 100, 101, 102,
    48, 45, 48, 49, 50, 51, 45, 52, 53, 54, 55, 56, 57, 97, 98, 99, 100,
    101, 102>>

\* "12345678-9ABC-DEF0-0123-456789ABCDEF"
CapitalU1 ==
    <<49, 50, 51, 52, 53, 54, 55, 56, 45, 57, 65, 66, 67, 45, 68, 69, 70,
    48, 45, 48, 49, 50, 51, 45, 52, 53, 54, 55, 56, 57, 65, 66, 67, 68, 69,
    70>>

\* h.clients as configured: none, the user in canonical form, the user in
\* capitals
ClientConfigs == {{}, {CanonicalU1}, {CapitalU1}}

FallbackTo(port) == [nil |-> FALSE, Dest |-> port]

\* "200 OK"
TargetReply == <<50, 48, 48, 32, 79, 75>>

\* New: the default profile is Profiles["http2-api"]
DefaultProfile == CHOOSE p \in Profiles : p.Name = "HTTP/2 API"

\* reflex.go:192-216 and an accepted connection on which Process starts
InitProcess ==
    /\ \/ /\ cstream \in HandshakeStreams
          /\ clients \in ClientConfigs
          /\ fallback = FallbackTo(8080)
          /\ targetUp = TRUE
          /\ \/ cframes = <<>>
             \/ /\ cstream = MagicPacket(U1, Now, 0, <<>>)
                /\ clients = {CanonicalU1}
                /\ cframes \in FrameTails
       \/ /\ cstream \in OtherStreams
          /\ clients = {CanonicalU1}
          /\ fallback \in {NilFallback, FallbackTo(8080)}
          /\ targetUp \in BOOLEAN
          /\ cframes = <<>>
    /\ tresp = TargetReply
    /\ csent = 0
    /\ cstate = "open"
    /\ ppc = "Peek"
    /\ peeked = <<>>
    /\ pret = ""
    /\ psite = ""
    /\ PastPeekIdle
    /\ PacketSizes = DefaultProfile.PacketSizes
    /\ Delays = DefaultProfile.Delays
    /\ nextPacketSize = 0
    /\ nextDelay = Zeros(8)
    /\ hist = <<>>
    /\ NewSession /\ NoDispatch /\ NoCallers /\ NoPadding /\ NoClassify

\* the numbers of bytes that may have arrived when the server looks
ProcessCuts == {3, 9, 27, 54, 64, 70, 78, 79}

NextProcess ==
    \/ \E n \in ProcessCuts : ClientWrite(n)
    \/ ClientWrite(Len(cstream))
    \/ \E k \in 1..Len(cframes) : ClientWriteFrames(k)
    \/ ClientClose
    \/ ClientReset
    \/ ProcessPeek
    \/ HandleReflexMagic
    \/ HandleReflexHTTP
    \/ ProcessHandshake
    \/ HandleSession
    \/ HandleFallback
    \/ Pump1Copy
    \/ Pump1End
    \/ \E n \in 1..Len(tresp) : TargetSend(n)
    \/ TargetClose
    \/ Pump2Copy
    \/ Pump2End
    \/ FallbackWait

SpecProcess == InitProcess /\ [][NextProcess]_vars

----------------------------------------------------------------------------
(* Connections that are relayed to the fallback target.  The goroutines of *)
(* the relay and handleFallback itself are scheduled: a step of theirs that *)
(* stays possible is taken.  Nothing is assumed of the client or of the     *)
(* target.                                                                  *)

\* an accepted connection that is not REFLEX, on a handler with a fallback
\* target that listens
InitRelay ==
    /\ cstream \in OtherStreams
    /\ clients = {CanonicalU1}
    /\ fallback = FallbackTo(8080)
    /\ targetUp = TRUE
    /\ cframes = <<>>
    /\ tresp = TargetReply
    /\ csent = 0
    /\ cstate = "open"
    /\ ppc = "Peek"
    /\ peeked = <<>>
    /\ pret = ""
    /\ psite = ""
    /\ PastPeekIdle
    /\ NoProfile
    /\ NewSession /\ NoDispatch /\ NoCallers /\ NoPadding /\ NoClassify

NextRelay ==
    \/ \E n \in ProcessCuts : ClientWrite(n)
    \/ ClientWrite(Len(cstream))
    \/ ClientClose
    \/ ClientReset
    \/ ProcessPeek
    \/ HandleFallback
    \/ Pump1Copy
    \/ Pump1End
    \/ \E n \in 1..Len(tresp) : TargetSend(n)
    \/ TargetClose
    \/ Pump2Copy
    \/ Pump2End
    \/ FallbackWait

SpecRelay ==
    /\ InitRelay
    /\ [][NextRelay]_vars
    /\ WF_vars(Pump1Copy)
    /\ WF_vars(Pump1End)
    /\ WF_vars(Pump2Copy)
    /\ WF_vars(Pump2End)
    /\ WF_vars(FallbackWait)

----------------------------------------------------------------------------
(* Connections that reach the session loop, with and without a dispatcher. *)

\* a dispatcher that is not nil
SomeDispatcher == [nil |-> FALSE]

\* what the clients of session connections write first: handshakes that are
\* accepted (magic layout with and without policy bytes, HTTP layout) and
\* handshakes that are refused (stale, unknown user)
LoopHandshakes ==
    { MagicPacket(U1, Now, 0, <<>>),
      MagicPacket(U1, Now, 3, <<97, 98, 99>>),
      MagicPacket(U1, Now - 301, 0, <<>>),
      MagicPacket(U2, Now, 0, <<>>),
      PostRequest(ContentLengthName, DataBody(RawPacket(U1, Now, <<>>))) }

\* 00 00 00 00 00 00 00 2a: 42 milliseconds
Millis42 == B(<<0, 0, 0, 0, 0, 0, 0, 42>>)

\* what they write after it: DATA frames, control frames, a frame of
\* unknown type, a replayed frame, a frame cut short
LoopTails ==
    { ClientFrame(0, FrameTypeData, B(<<104, 105>>))
          \o ClientFrame(1, FrameTypeData, B(<<106>>)),
      ClientFrame(0, 9, B(<<1>>))
          \o ClientFrame(1, FrameTypeData, B(<<104, 105>>)),
      ClientFrame(0, FrameTypePaddingCtrl, B(<<4, 210>>))
          \o ClientFrame(1, FrameTypeData, B(<<104, 105>>))
          \o ClientFrame(2, FrameTypeData, B(<<106>>)),
      ClientFrame(0, FrameTypeTimingCtrl, Millis42)
          \o ClientFrame(1, FrameTypeData, B(<<104, 105>>)),
      ClientFrame(0, FrameTypeData, B(<<104, 105>>))
          \o ClientFrame(0, FrameTypeData, B(<<104, 105>>)),
      ClientFrame(0, 255, <<>>) \o <<Raw(<<0, 40>>)>> }

\* reflex.go:192-216 and an accepted connection on which Process starts,
\* with the dispatcher the host runtime hands it
InitLoop ==
    /\ cstream \in LoopHandshakes
    /\ clients = {CanonicalU1}
    /\ fallback = FallbackTo(8080)
    /\ targetUp = TRUE
    /\ cframes \in LoopTails
    /\ dispatcher \in {NilDispatcher, SomeDispatcher}
    /\ links = <<>>
    /\ tresp = TargetReply
    /\ csent = 0
    /\ cstate = "open"
    /\ ppc = "Peek"
    /\ peeked = <<>>
    /\ pret = ""
    /\ psite = ""
    /\ PastPeekIdle
    /\ PacketSizes = DefaultProfile.PacketSizes
    /\ Delays = DefaultProfile.Delays
    /\ nextPacketSize = 0
    /\ nextDelay = Zeros(8)
    /\ hist = <<>>
    /\ NewSession /\ NoCallers /\ NoPadding /\ NoClassify

NextLoop ==
    \/ ClientWrite(Len(cstream))
    \/ \E k \in 1..Len(cframes) : ClientWriteFrames(k)
    \/ ClientClose
    \/ ClientReset
    \/ ProcessPeek
    \/ HandleReflexMagic
    \/ HandleReflexHTTP
    \/ ProcessHandshake
    \/ HandleSession

SpecLoop == InitLoop /\ [][NextLoop]_vars

----------------------------------------------------------------------------
(* Properties of the frame codec and session. *)

\* the 8-byte counter embedded in an on-wire nonce
EmbeddedCounter(nonce) == Uint64(SubSeq(nonce, 5, 12))

\* C1: every frame written with WriteFrame by one caller, whatever its type
\* and payload length, comes back from ReadFrame on the same stream with the
\* same type and payload and no error.
C1_RoundTrip ==
    nDeliver = 0 =>
        \A i \in DOMAIN got :
            /\ got[i].err = ""
            /\ got[i].frame.Type = calls[i].Type
            /\ got[i].frame.Payload = calls[i].Payload

\* The round trip of C1 for the frames whose nonce and ciphertext fit the
\* 16-bit length prefix.
RoundTripWithinLengthPrefix ==
    nDeliver = 0 =>
        \A i \in DOMAIN got :
            (\A j \in 1..i : NonceSize + SegLen(calls[j].ciphertext) < 65536)
                => /\ got[i].err = ""
                   /\ got[i].frame.Type = calls[i].Type
                   /\ got[i].frame.Payload = calls[i].Payload

\* C2: the counters embedded in the nonces of distinct WriteFrame calls on
\* one session differ, the first call carries counter 0, a call carries a
\* larger counter than every call that completed before it began, and the
\* nonce is 12 bytes of which the first four are zero.
C2_WriteCountersDistinctIncreasing ==
    /\ \A i, j \in DOMAIN calls :
           i # j => EmbeddedCounter(calls[i].nonce) # EmbeddedCounter(calls[j].nonce)
    /\ Len(calls) >= 1 => EmbeddedCounter(calls[1].nonce) = 0
    /\ \A i \in DOMAIN calls : \A j \in calls[i].before :
           EmbeddedCounter(calls[i].nonce) > EmbeddedCounter(calls[j].nonce)
    /\ \A i \in DOMAIN calls :
           Len(calls[i].nonce) = 12 /\ SubSeq(calls[i].nonce, 1, 4) = <<0, 0, 0, 0>>
    /\ \A i \in DOMAIN wire :
           (wire[i].k = "raw" /\ Len(wire[i].b) = NonceSize)
               => \E c \in DOMAIN calls : calls[c].nonce = wire[i].b

\* C2 witness: two calls ran at the same time and both completed.
C2_Witness ==
    /\ overlapped
    /\ Len(calls) = 2
    /\ \A i \in DOMAIN calls : calls[i].done

\* C3: ReadFrame on the bytes of a frame the session has already accepted
\* returns the replay error and no frame.
C3_ReplayRejected ==
    last.wasAccepted => (last.err = ErrReplay /\ last.frame = NoFrame)

\* C3 witness: the frame delivered again is not the latest one accepted.
C3_Witness ==
    /\ last.wasAccepted
    /\ Len(acc) >= 2
    /\ last.counter < readNonceCount

\* C4: the counters of the accepted frames increase strictly; an authentic
\* frame is accepted exactly when it is the first one accepted or its counter
\* exceeds the last accepted counter, and is otherwise refused as a replay.
C4_AcceptedStrictlyIncreasing ==
    /\ \A i \in 1..(Len(acc) - 1) : acc[i] < acc[i + 1]
    /\ last.authentic =>
           /\ (last.err = "") <=>
                  (~last.seenBefore \/ last.counter > last.countBefore)
           /\ last.err # "" => (last.err = ErrReplay /\ last.frame = NoFrame)
    /\ (readSeen /\ Len(acc) > 0) => readNonceCount = acc[Len(acc)]
    /\ readSeen <=> Len(acc) > 0

\* C4 witness: the first frame accepted carried a counter other than 0 and a
\* frame that arrived out of order was then refused.
C4_Witness ==
    /\ Len(acc) >= 1
    /\ acc[1] > 0
    /\ last.authentic
    /\ last.err = ErrReplay
    /\ last.counter < acc[1]


----------------------------------------------------------------------------
(* Properties of the traffic profile engine. *)

ConfiguredSizes == {PacketSizes[i].Size : i \in DOMAIN PacketSizes}
ConfiguredDelays == {Delays[i].Delay : i \in DOMAIN Delays}

\* what a sampling call returns when no override is pending
FromSizeDist(v) ==
    IF Len(PacketSizes) = 0 THEN v = 0 ELSE v \in ConfiguredSizes
FromDelayDist(v) ==
    IF Len(Delays) = 0 THEN v = Zeros(8) ELSE v \in ConfiguredDelays

IsOp(i, op) == hist[i].op = op

\* call i writes p.nextPacketSize / p.nextDelay
SetsSize(i) ==
    \/ IsOp(i, "SetNextPacketSize")
    \/ /\ IsOp(i, "ApplyControlFrame")
       /\ hist[i].type = FrameTypePaddingCtrl
       /\ BLen(hist[i].payload) >= 2
SetsDelay(i) ==
    \/ IsOp(i, "SetNextDelay")
    \/ /\ IsOp(i, "ApplyControlFrame")
       /\ hist[i].type = FrameTypeTimingCtrl
       /\ BLen(hist[i].payload) >= 8

\* j is the first call of kind op after call i, and k the first after j, with
\* no call of the set S of calls in between
NextTwo(i, j, k, op, S) ==
    /\ i < j /\ j < k
    /\ IsOp(j, op) /\ IsOp(k, op)
    /\ \A m \in (i + 1)..(k - 1) : m # j => ~IsOp(m, op)
    /\ \A m \in (i + 1)..(k - 1) : m \notin S

\* j is the first call of kind op after call i, with no call of S in between
NextOne(i, j, op, S) ==
    /\ i < j
    /\ IsOp(j, op)
    /\ \A m \in (i + 1)..(j - 1) : ~IsOp(m, op) /\ m \notin S

SizeSetters == {m \in DOMAIN hist : SetsSize(m)}
DelaySetters == {m \in DOMAIN hist : SetsDelay(m)}

\* C6: after SetNextPacketSize(v) with v > 0 the next GetPacketSize returns v
\* and the one after it returns a configured size, or 0 when the profile has
\* no sizes; the same for SetNextDelay and GetDelay.
C6_OverridesOneShot ==
    /\ \A i, j \in DOMAIN hist :
           (IsOp(i, "SetNextPacketSize") /\ hist[i].size > 0
               /\ NextOne(i, j, "GetPacketSize", SizeSetters))
               => hist[j].ret = hist[i].size
    /\ \A i, j, k \in DOMAIN hist :
           (IsOp(i, "SetNextPacketSize") /\ hist[i].size > 0
               /\ NextTwo(i, j, k, "GetPacketSize", SizeSetters))
               => FromSizeDist(hist[k].ret)
    /\ \A i, j \in DOMAIN hist :
           (IsOp(i, "SetNextDelay") /\ I64Positive(hist[i].delay)
               /\ NextOne(i, j, "GetDelay", DelaySetters))
               => hist[j].ret = hist[i].delay
    /\ \A i, j, k \in DOMAIN hist :
           (IsOp(i, "SetNextDelay") /\ I64Positive(hist[i].delay)
               /\ NextTwo(i, j, k, "GetDelay", DelaySetters))
               => FromDelayDist(hist[k].ret)

\* C6 witness: an override was returned once and the next call sampled.
C6_Witness ==
    /\ Len(hist) = 3
    /\ IsOp(1, "SetNextPacketSize") /\ hist[1].size = 1234
    /\ IsOp(2, "GetPacketSize") /\ hist[2].ret = 1234
    /\ IsOp(3, "GetPacketSize") /\ hist[3].ret = 500

\* the number that the first two bytes of the payload of call i hold in
\* big-endian
CtrlSize(i) ==
    Plain(BTake(hist[i].payload, 1))[1] * 256
        + Plain(BTake(BDrop(hist[i].payload, 1), 1))[1]

\* call i is a PADDING_CTRL frame whose payload has at least 2 bytes, the
\* first two of which hold a number in 1..65535
PaddingCtrl(i) ==
    /\ IsOp(i, "ApplyControlFrame")
    /\ hist[i].type = FrameTypePaddingCtrl
    /\ BLen(hist[i].payload) >= 2
    /\ CtrlSize(i) \in 1..65535

\* C7 as claimed: after such a frame carrying n the next GetPacketSize
\* returns n and the one after it returns a size of the profile's size
\* distribution.
C7_ControlFrameThenConfiguredSize ==
    /\ \A i, j \in DOMAIN hist :
           (PaddingCtrl(i) /\ NextOne(i, j, "GetPacketSize", SizeSetters))
               => hist[j].ret = CtrlSize(i)
    /\ \A i, j, k \in DOMAIN hist :
           (PaddingCtrl(i) /\ NextTwo(i, j, k, "GetPacketSize", SizeSetters))
               => hist[k].ret \in ConfiguredSizes

\* C7 amended: after such a frame carrying n the next GetPacketSize returns
\* n and the one after it returns a size of the profile's size distribution,
\* or 0 when that distribution is empty.
C7_ControlFrameThenSampled ==
    /\ \A i, j \in DOMAIN hist :
           (PaddingCtrl(i) /\ NextOne(i, j, "GetPacketSize", SizeSetters))
               => hist[j].ret = CtrlSize(i)
    /\ \A i, j, k \in DOMAIN hist :
           (PaddingCtrl(i) /\ NextTwo(i, j, k, "GetPacketSize", SizeSetters))
               => FromSizeDist(hist[k].ret)

\* C7 witness: the frame carried 65535, which the next call returned, and the
\* call after it sampled a configured size.
C7_Witness ==
    /\ Len(hist) = 3
    /\ PaddingCtrl(1) /\ CtrlSize(1) = 65535
    /\ IsOp(2, "GetPacketSize") /\ hist[2].ret = 65535
    /\ IsOp(3, "GetPacketSize") /\ hist[3].ret \in ConfiguredSizes


----------------------------------------------------------------------------
(* Properties of the peek demultiplexer. *)

StartsWith(b, p) == Len(b) >= Len(p) /\ SubSeq(b, 1, Len(p)) = p

\* p occurs in b
Occurs(b, p) ==
    \E i \in 1..Len(b) :
        i + Len(p) - 1 <= Len(b) /\ SubSeq(b, i, i + Len(p) - 1) = p

Classified == ppc \in {"handleReflexMagic", "handleReflexHTTP", "handleFallback"}

\* C8: a peeked buffer that begins with 0x52 0x46 0x58 0x4C goes to the magic
\* handshake path whatever follows, "HTTP/1.1" included.
C8_MagicGoesToMagicPath ==
    (Classified /\ StartsWith(peeked, MagicBytes)) => ppc = "handleReflexMagic"

\* C8 witness: such a buffer holding "HTTP/1.1" took the magic path.
C8_Witness ==
    /\ ppc = "handleReflexMagic"
    /\ StartsWith(peeked, MagicBytes)
    /\ Occurs(peeked, HTTP11)

\* C9 as claimed: a buffer of any length that begins with "POST " and holds
\* "HTTP/1.1" within its first 64 bytes is classified REFLEX-HTTP.
C9_PostWithVersionIsHTTP ==
    (cls.called /\ StartsWith(cls.buf, POST \o SP)
        /\ Occurs(Take(cls.buf, 64), HTTP11))
        => (cls.isHTTPPostLike /\ cls.route = "handleReflexHTTP")

\* C9 amended: a buffer of at least 14 bytes that begins with "POST " and
\* holds "HTTP/1.1" within its first 64 bytes is classified REFLEX-HTTP.
C9_PostWithVersionFrom14IsHTTP ==
    (cls.called /\ Len(cls.buf) >= 14 /\ StartsWith(cls.buf, POST \o SP)
        /\ Occurs(Take(cls.buf, 64), HTTP11))
        => (cls.isHTTPPostLike /\ cls.route = "handleReflexHTTP")

\* C9 witness: "HTTP/1.1" ends at the last of the 64 bytes.
C9_Witness ==
    /\ cls.called
    /\ Len(cls.buf) = 64
    /\ StartsWith(cls.buf, POST \o SP)
    /\ SubSeq(cls.buf, 57, 64) = HTTP11
    /\ cls.route = "handleReflexHTTP"

\* the bytes Process had in hand when it chose what to do
InHand == IF Classified THEN peeked ELSE Take(cstream, csent)

LooksReflex(b) ==
    StartsWith(b, MagicBytes) \/ (StartsWith(b, POST) /\ Occurs(b, HTTP11))

\* C10: once Process has acted on the bytes a client sent, it has entered a
\* handshake parser only if they begin with the magic or with "POST" and
\* hold "HTTP/1.1"; on any other bytes, fewer than 4 included, it has entered
\* the fallback relay.
C10_ReflexOnlyElseFallback ==
    (ppc # "Peek" /\ pret # ErrRead /\ Len(InHand) > 0) =>
        /\ ppc \in {"handleReflexMagic", "handleReflexHTTP"} => LooksReflex(InHand)
        /\ ~LooksReflex(InHand) => ppc = "handleFallback"

\* The part of C10 the code keeps: a handshake parser is entered only on
\* bytes that begin with the magic or with "POST" and hold "HTTP/1.1", and a
\* full peek of other bytes goes to the fallback relay.
HandshakeOnlyIfLooksReflex ==
    /\ ppc \in {"handleReflexMagic", "handleReflexHTTP"} => LooksReflex(peeked)
    /\ (Classified /\ ~LooksReflex(peeked)) => ppc = "handleFallback"


----------------------------------------------------------------------------
(* Properties of the handshake, the replies and the fallback relay. *)

\* processHandshake has run on a parsed handshake
HandshakeDone == hs # NoHandshake /\ ppc # "processHandshake"

\* the UUID and the timestamp a magic-layout client put on the wire
StreamUser == SubSeq(cstream, 37, 52)
StreamTime == SubSeq(cstream, 53, 60)

IsMagicLayout == Len(cstream) >= 4 + FixedSize /\ StartsWith(cstream, MagicBytes)

\* timestamps within 300 seconds of server time, the two ends included
FreshTimes == {Now - 300, Now, Now + 300}

\* timestamps more than 300 seconds off
StaleTimes == {Now - 301, Now + 301, -1}

SentFresh == \E t \in FreshTimes : StreamTime = TimestampBytes(t)
SentStale == \E t \in StaleTimes : StreamTime = TimestampBytes(t)

\* every conn.Write of the reply went through
RepliedInFull == psite \notin {"processHandshake: write"} /\ pret # ErrWrite

OKReply(w) ==
    /\ w.kind = "header"
    /\ w.text[1] = "HTTP/1.1 200"
    /\ \E i \in DOMAIN w.text : w.text[i] = "Content-Type: application/json"

ForbiddenReply(h, b, reason) ==
    /\ h.kind = "header"
    /\ h.text[1] = "HTTP/1.1 403 Forbidden"
    /\ b.kind = "error"
    /\ b.text = <<"{\"error\":\"", reason, "\"}">>

InSessionLoop ==
    /\ session
    /\ ppc = "handleSession" \/ psite \in {"handleSession: io.EOF", "handleSession: error"}

\* C11: a magic-layout handshake with a configured UUID and a timestamp
\* within 300 seconds of server time, the ends included, is answered with a
\* reply that begins "HTTP/1.1 200" and carries Content-Type
\* application/json, and the connection is then in the session loop.
C11_FreshKnownHandshakeAccepted ==
    (/\ HandshakeDone
     /\ IsMagicLayout
     /\ StreamUser = U1
     /\ CanonicalU1 \in clients
     /\ SentFresh
     /\ RepliedInFull)
    => /\ Len(wrote) >= 2
       /\ OKReply(wrote[1])
       /\ wrote[2].kind = "json"
       /\ InSessionLoop

\* C11 witness: a handshake stamped exactly 300 seconds ahead is in the
\* session loop after its 200 reply.
C11_Witness ==
    /\ ppc = "handleSession"
    /\ IsMagicLayout
    /\ StreamTime = TimestampBytes(Now + 300)
    /\ Len(wrote) = 2
    /\ OKReply(wrote[1])

\* C12: the body of the 200 reply is a JSON object whose public_key is a
\* JSON string holding the base64 of the server's 32-byte public key and
\* whose policy_grant is null or a base64 string.
C12_PublicKeyIsBase64String ==
    \A i \in DOMAIN wrote :
        wrote[i].kind = "json" =>
            LET f == wrote[i].json.fields
            IN  /\ f[1].name = "public_key"
                /\ f[1].value.t = "string"
                /\ f[1].value.s = EncodeToString(serverPub)
                /\ f[2].name = "policy_grant"
                /\ f[2].value.t \in {"null", "string"}

\* C13: a handshake stamped more than 300 seconds off server time is
\* answered with "HTTP/1.1 403 Forbidden" and the body
\* {"error":"invalid timestamp"}, the connection is closed and no session is
\* created, also when the UUID is unknown.
C13_StaleTimestampRejected ==
    (HandshakeDone /\ IsMagicLayout /\ SentStale)
    => /\ ppc = "returned"
       /\ connClosed
       /\ ~session
       /\ cstate # "reset" => pret = "nil"
       /\ pret = "nil" =>
              /\ Len(wrote) = 2
              /\ ForbiddenReply(wrote[1], wrote[2], "invalid timestamp")

\* C13 witness: a stale handshake of an unknown user got the timestamp
\* reply.
C13_Witness ==
    /\ HandshakeDone
    /\ IsMagicLayout
    /\ SentStale
    /\ StreamUser = U2
    /\ Len(wrote) = 2
    /\ ForbiddenReply(wrote[1], wrote[2], "invalid timestamp")

\* C14: a handshake with a fresh timestamp is authenticated exactly when
\* the canonical string of its UUID is the id of a configured client;
\* otherwise, an empty client list included, the reply is a 403 with error
\* "forbidden", the connection is closed and the session loop is not
\* entered.
C14_AuthenticatedIffConfigured ==
    (HandshakeDone /\ IsMagicLayout /\ SentFresh)
    => IF (StreamUser = U1 /\ CanonicalU1 \in clients)
       THEN /\ psite \notin {"processHandshake: forbidden"}
            /\ RepliedInFull => InSessionLoop
       ELSE /\ ppc = "returned"
            /\ psite = "processHandshake: forbidden"
            /\ connClosed
            /\ ~session
            /\ pret = "nil" =>
                   /\ Len(wrote) = 2
                   /\ ForbiddenReply(wrote[1], wrote[2], "forbidden")

\* C14 witness: a fresh handshake was refused by a handler whose only
\* client id is written in capitals.
C14_Witness ==
    /\ HandshakeDone
    /\ IsMagicLayout
    /\ SentFresh
    /\ StreamUser = U1
    /\ clients = {CapitalU1}
    /\ Len(wrote) = 2
    /\ ForbiddenReply(wrote[1], wrote[2], "forbidden")

RECURSIVE RelayedToClient(_)
\* the bytes of the target that were written to the client, in order
RelayedToClient(ws) ==
    IF Len(ws) = 0 THEN <<>>
    ELSE (IF ws[1].kind = "relay" THEN ws[1].bytes ELSE <<>>)
         \o RelayedToClient(Tail(ws))

C16_CompleteRequestNotKeptWaiting ==
    (/\ ppc = "Peek"
     /\ cstream \in OtherStreams
     /\ Len(cstream) > 0
     /\ csent = Len(cstream)
     /\ cstate = "open")
    => ENABLED ProcessPeek

\* C17: Process ends silently at the peek only on an EOF that comes before
\* any byte; after 1 to 63 bytes and EOF the bytes are classified and
\* relayed.
C17_SilentOnlyOnEmptyEOF ==
    /\ psite = "Peek: io.EOF" => csent = 0
    /\ (ppc = "returned" /\ cstate = "eof" /\ csent \in 1..63
           /\ ~fallback.nil /\ targetUp)
       => dialed

\* what a complete handshake looks like on the wire
CompleteHandshakes ==
    { MagicPacket(U1, Now, 0, <<>>),
      MagicPacket(U1, Now, 3, <<97, 98, 99>>),
      PostRequest(ContentLengthName, DataBody(RawPacket(U1, Now, <<>>))) }

\* the client closed after a strict prefix of a handshake
ClosedInHandshake ==
    /\ cstate = "eof"
    /\ csent > 0
    /\ \E full \in CompleteHandshakes :
           /\ csent < Len(full)
           /\ Take(cstream, csent) = Take(full, csent)

\* C18: when the client closes after a strict prefix of a handshake,
\* Process returns an error.
C18_TruncatedHandshakeIsError ==
    (ppc = "returned" /\ ClosedInHandshake /\ csent = Arrived) => pret # "nil"

C20_ClosedOnEveryReturn == ppc = "returned" => connClosed

----------------------------------------------------------------------------
(* Properties of the HTTP handshake path and of handshake errors. *)

\* the policy bytes a client may append to the 72-byte packet
Policies == {<<>>, <<97, 98, 99>>}

\* a POST request whose Content-Length header, in either letter case,
\* counts a body {"data":"<base64>"} that decodes to the packet of user U1
\* stamped with server time, followed by policy
HTTPHandshakeOf(policy) ==
    \E name \in {ContentLengthName, contentLengthName} :
        cstream = PostRequest(name, DataBody(RawPacket(U1, Now, policy)))

\* the whole request has arrived and the client still waits for the reply
ArrivedAndWaiting == csent = Len(cstream) /\ cstate = "open"

\* Process is past the reading of the handshake
PastHandshakeRead == ppc \notin {"Peek", "handleReflexHTTP", "handleReflexMagic"}

\* C21: a POST request with a Content-Length header (either letter case)
\* whose body is {"data":"<base64>"} of a packet with a configured UUID and
\* a fresh timestamp is read to its last body byte, the bytes past offset 72
\* become PolicyReq, the reply is 200 and the session loop is entered.
C21_HTTPHandshakeAccepted ==
    \A policy \in Policies :
        (/\ HTTPHandshakeOf(policy)
         /\ CanonicalU1 \in clients
         /\ ArrivedAndWaiting
         /\ PastHandshakeRead
         /\ ppc # "processHandshake")
        => /\ rdpos = Len(cstream)
           /\ hs.PolicyReq = policy
           /\ Len(wrote) >= 2
           /\ OKReply(wrote[1])
           /\ InSessionLoop

\* return values of Process that report a failed read of the connection
ReadErrors == {ErrEOF, ErrUnexpectedEOF, ErrRead}

\* Process returned, and neither at the peek nor because a read failed
ReturnedPastReads ==
    /\ ppc = "returned"
    /\ psite \notin {"Peek: io.EOF", "Peek: error"}
    /\ pret \notin ReadErrors

\* requests that are classified as Reflex and complete, and fail validation:
\* a body that is not JSON, data that is not base64, a packet of 71 bytes
MalformedHandshakes ==
    { PostRequest(ContentLengthName, NotJSON),
      PostRequest(ContentLengthName, NotBase64),
      PostRequest(ContentLengthName, DataBody(Take(RawPacket(U1, Now, <<>>), 71))) }

\* requests whose packet parses and is then refused: stale timestamp,
\* unknown user
RefusedHandshakes ==
    { MagicPacket(U1, Now - 301, 0, <<>>),
      MagicPacket(U1, Now + 301, 0, <<>>),
      MagicPacket(U2, Now, 0, <<>>),
      PostRequest(ContentLengthName, DataBody(RawPacket(U1, Now - 301, <<>>))),
      PostRequest(ContentLengthName, DataBody(RawPacket(U2, Now, <<>>))) }

\* the 403 reply was written whole
Wrote403 ==
    /\ Len(wrote) = 2
    /\ wrote[1].kind = "header"
    /\ wrote[1].text[1] = "HTTP/1.1 403 Forbidden"
    /\ wrote[2].kind = "error"

\* C22: every handshake validation error (stale timestamp, unknown user,
\* too-short packet, invalid JSON, invalid base64) ends with the connection
\* closed, and Process returns nil after a 403 reply written whole, or the
\* write error when a write of the reply failed.
C22_ValidationErrorsGet403 ==
    (/\ cstream \in MalformedHandshakes \cup RefusedHandshakes
     /\ ReturnedPastReads)
    => /\ connClosed
       /\ \/ pret = "nil" /\ Wrote403
          \/ pret = ErrWrite /\ Len(wrote) < 2

\* requests classified as Reflex that always fail to parse: no positive
\* Content-Length, and the malformed bodies
UnparsableRequests ==
    MalformedHandshakes \cup {PostLine \o HostLine \o CRLF \o Fill(30)}

\* C23: a connection classified as Reflex whose handshake fails to parse
\* (no positive Content-Length, body not JSON, data not base64, packet
\* shorter than 72 bytes) is relayed to the fallback target.
C23_ParseFailureFallsBack ==
    (/\ cstream \in UnparsableRequests
     /\ ReturnedPastReads)
    => dialed

----------------------------------------------------------------------------
(* Properties of concurrent writers and of rejected frames. *)

\* the k-th Write of the frame of call c: header, nonce, ciphertext
FramePart(c, k) ==
    IF k = 0 THEN Raw(calls[c].header)
    ELSE IF k = 1 THEN Raw(calls[c].nonce)
    ELSE calls[c].ciphertext

\* C24: with several callers of WriteFrame on one session and one writer,
\* what is on the wire is always the frames of the calls in counter order,
\* each as header, nonce, ciphertext with nothing of another frame between.
C24_FramesContiguousInCounterOrder ==
    \A i \in DOMAIN wire :
        LET c == ((i - 1) \div 3) + 1
        IN  c \in DOMAIN calls /\ wire[i] = FramePart(c, (i - 1) % 3)

\* the latest ReadFrame call returned an error
LastRejected == last.src # "none" /\ last.err # ""

\* the error ReadFrame owes to each kind of foreign frame
ForeignError ==
    [c \in {f.case : f \in ForeignFrames} |->
        IF c = "total_len < 12" THEN ErrFrameTooShort
        ELSE IF c = "total_len - 12 < 16" THEN ErrCiphertextTooShort
        ELSE IF c = "open fails" THEN ErrAuth
        ELSE ErrEmptyPlaintext]

----------------------------------------------------------------------------
(* Properties of the length prefix and of morphed writes. *)

\* C26: in every frame WriteFrame emits, the 16-bit length prefix is the
\* number of nonce and ciphertext bytes that follow, 12 + 1 + len(payload)
\* + 16, also for payloads that WriteFrameWithMorphing padded to a size a
\* PADDING_CTRL frame set.
C26_LengthPrefixCountsFrame ==
    \A c \in DOMAIN calls :
        Uint16(calls[c].header)
            = NonceSize + 1 + BLen(calls[c].Payload) + Overhead

IsMorphCall(i) == hist[i].op = "WriteFrameWithMorphing"

\* the WriteFrame call that the call logged at hist[i] made
FrameOf(i) == calls[Cardinality({j \in 1..i : IsMorphCall(j)})]

\* C30: WriteFrameWithMorphing with a nil profile writes the payload as it
\* is, samples nothing and does not sleep; with a profile it takes one
\* GetPacketSize sample, writes one frame whose payload is the caller's cut
\* or padded to that target (left alone for a target of 0), and takes one
\* GetDelay sample and sleeps for it only after the write succeeded: a
\* failed write returns the error with no delay sampled.
C30_MorphedWrite ==
    \A i \in DOMAIN hist :
        IsMorphCall(i) =>
            LET e == hist[i]
                keep == Min(BLen(e.payload), BLen(e.morphed))
            IN  /\ FrameOf(i).Payload = e.morphed
                /\ FrameOf(i).Type = e.type
                /\ FrameOf(i).done = (e.err = "")
                /\ IF e.profile = "nil"
                   THEN /\ e.morphed = e.payload
                        /\ e.sizes = <<>>
                        /\ e.delays = <<>>
                        /\ e.slept = <<>>
                   ELSE /\ Len(e.sizes) = 1
                        /\ e.sizes[1] > 0 => BLen(e.morphed) = e.sizes[1]
                        /\ e.sizes[1] <= 0 => e.morphed = e.payload
                        /\ BTake(e.morphed, keep) = BTake(e.payload, keep)
                        /\ e.err = ""
                           => /\ Len(e.delays) = 1
                              /\ e.slept = IF I64Positive(e.delays[1])
                                           THEN e.delays ELSE <<>>
                        /\ e.err # "" => e.delays = <<>> /\ e.slept = <<>>

\* C30 witness: a write that failed and sampled no delay, then a write that
\* padded the payload to the sampled target and slept for the sampled delay.
C30_Witness ==
    /\ Len(hist) = 2
    /\ IsMorphCall(1) /\ hist[1].profile = "set" /\ hist[1].err # ""
    /\ hist[1].delays = <<>>
    /\ IsMorphCall(2) /\ hist[2].profile = "set" /\ hist[2].err = ""
    /\ hist[2].sizes = <<1500>>
    /\ BLen(hist[2].morphed) = 1500 /\ BLen(hist[2].payload) = 2
    /\ hist[2].slept = <<Ms(15)>>

----------------------------------------------------------------------------
(* Properties of sampling and of control frames. *)

RECURSIVE Cumulative(_, _)
\* the sum of the weights of buckets 1..i of dist
Cumulative(dist, i) ==
    IF i = 0 THEN 0 ELSE Cumulative(dist, i - 1) + dist[i].Weight

\* the first bucket of dist, in array order, whose cumulative weight is at
\* least r; the last bucket if there is none
BucketFor(dist, r) ==
    LET q == {i \in DOMAIN dist : Cumulative(dist, i) >= r}
    IN  IF q = {} THEN Len(dist) ELSE CHOOSE i \in q : \A j \in q : i <= j

\* the step is a call of op on the profile
Called(op) ==
    /\ Len(hist') = Len(hist) + 1
    /\ hist'[Len(hist')].op = op

\* C27: with no override pending, GetPacketSize returns the size of the
\* first bucket whose cumulative weight is >= the draw r, the size of the
\* last bucket if there is none, and 0 for an empty distribution, and leaves
\* the distributions and both overrides as they were; GetDelay does the same
\* over the delays.
C27_SampleWalksDistribution ==
    [][ /\ (Called("GetPacketSize") /\ nextPacketSize <= 0)
           => /\ hist'[Len(hist')].ret
                    = IF Len(PacketSizes) = 0 THEN 0
                      ELSE PacketSizes[BucketFor(PacketSizes,
                                                 hist'[Len(hist')].r)].Size
              /\ FromSizeDist(hist'[Len(hist')].ret)
              /\ UNCHANGED <<PacketSizes, Delays, nextPacketSize, nextDelay>>
        /\ (Called("GetDelay") /\ ~I64Positive(nextDelay))
           => /\ hist'[Len(hist')].ret
                    = IF Len(Delays) = 0 THEN Zeros(8)
                      ELSE Delays[BucketFor(Delays, hist'[Len(hist')].r)].Delay
              /\ FromDelayDist(hist'[Len(hist')].ret)
              /\ UNCHANGED <<PacketSizes, Delays, nextPacketSize, nextDelay>>
      ]_vars

\* C27 witness: on a profile whose weights sum to 0.5, a draw of 0.2 gave the
\* first bucket (cumulative weight exactly 0.2), a draw of 0.9 the last
\* bucket, and a delay drawn at 0.3 the second delay.
C27_Witness ==
    /\ Len(hist) = 3
    /\ Len(PacketSizes) = 2 /\ Cumulative(PacketSizes, 2) = 5
    /\ IsOp(1, "GetPacketSize") /\ hist[1].r = 2 /\ hist[1].ret = 100
    /\ IsOp(2, "GetPacketSize") /\ hist[2].r = 9 /\ hist[2].ret = 300
    /\ IsOp(3, "GetDelay") /\ hist[3].r = 3 /\ hist[3].ret = Ms(2)

\* the 8 bytes that the payload of call i begins with
CtrlMillis(i) == Plain(BTake(hist[i].payload, 8))

\* call i is a TIMING_CTRL frame whose payload has at least 8 bytes, the
\* first 8 of which hold a number v > 0
TimingCtrl(i) ==
    /\ IsOp(i, "ApplyControlFrame")
    /\ hist[i].type = FrameTypeTimingCtrl
    /\ BLen(hist[i].payload) >= 8
    /\ CtrlMillis(i) # Zeros(8)

\* the time.Duration d is exactly v milliseconds: d is not negative and its
\* nanoseconds are v * 1000000, computed on 11 bytes, where nothing is lost
ExactlyMillis(d, v) ==
    /\ d[1] < 128
    /\ Zeros(3) \o d = MulBE(Zeros(3) \o v, Millisecond, 0)

\* C28: after a TIMING_CTRL frame of at least 8 bytes that carries v > 0 in
\* its first 8 bytes, big-endian, the next GetDelay returns exactly v
\* milliseconds, whatever 64-bit value v is, and the call after it returns a
\* sampled delay.
C28_TimingCtrlSetsExactDelay ==
    /\ \A i, j \in DOMAIN hist :
           (TimingCtrl(i) /\ NextOne(i, j, "GetDelay", DelaySetters))
               => ExactlyMillis(hist[j].ret, CtrlMillis(i))
    /\ \A i, j, k \in DOMAIN hist :
           (TimingCtrl(i) /\ NextTwo(i, j, k, "GetDelay", DelaySetters))
               => FromDelayDist(hist[k].ret)

\* C29: ApplyControlFrame leaves both overrides alone for a frame type that
\* is neither PADDING_CTRL nor TIMING_CTRL, for a PADDING_CTRL payload under
\* 2 bytes and for a TIMING_CTRL payload under 8 bytes; PADDING_CTRL never
\* changes the delay override nor TIMING_CTRL the size override; with a nil
\* profile nothing changes.
C29_ControlFrameNoOps ==
    [][ /\ Called("ApplyControlFrame")
           => LET e == hist'[Len(hist')]
                  short == \/ e.type = FrameTypePaddingCtrl /\ BLen(e.payload) < 2
                           \/ e.type = FrameTypeTimingCtrl /\ BLen(e.payload) < 8
              IN  /\ e.type \notin {FrameTypePaddingCtrl, FrameTypeTimingCtrl}
                     => UNCHANGED <<nextPacketSize, nextDelay>>
                  /\ short => UNCHANGED <<nextPacketSize, nextDelay>>
                  /\ e.type = FrameTypePaddingCtrl => UNCHANGED nextDelay
                  /\ e.type = FrameTypeTimingCtrl => UNCHANGED nextPacketSize
        /\ Called("ApplyControlFrame(nil)")
           => UNCHANGED <<PacketSizes, Delays, nextPacketSize, nextDelay>>
      ]_vars

\* C29 witness: a delay override of 42 ms was set, then a PADDING_CTRL frame
\* set the size, then a TIMING_CTRL frame of 7 bytes arrived, and both
\* overrides are still pending.
C29_Witness ==
    /\ Len(hist) = 3
    /\ TimingCtrl(1)
    /\ IsOp(2, "ApplyControlFrame") /\ hist[2].type = FrameTypePaddingCtrl
    /\ IsOp(3, "ApplyControlFrame") /\ hist[3].type = FrameTypeTimingCtrl
    /\ BLen(hist[3].payload) = 7
    /\ nextPacketSize = 1234
    /\ nextDelay = Ms(42)

----------------------------------------------------------------------------
(* Properties of the session loop. *)

\* the session loop has returned
LoopReturned ==
    session /\ psite \in {"handleSession: io.EOF", "handleSession: error"}

\* the bytes that arrived past the last frame the loop took
LeftOver == StreamLen(ArrivedStream) - rdpos

\* the errors ReadFrame finds in a frame whose bytes are all there
FrameErrors ==
    {ErrFrameTooShort, ErrCiphertextTooShort, ErrAuth, ErrEmptyPlaintext,
     ErrReplay}

\* C31: the session loop returns nil only when the client's stream ended
\* exactly at a frame boundary; a stream that ends inside a frame (in or
\* after the length prefix, after the nonce) makes it return an error, and
\* so does every length, AEAD or replay error.
C31_CleanEndOnlyAtFrameBoundary ==
    /\ (LoopReturned /\ pret = "nil") => (cstate = "eof" /\ LeftOver = 0)
    /\ (LoopReturned /\ cstate = "eof" /\ LeftOver > 0) => pret # "nil"
    /\ (session /\ last.src = "conn" /\ last.err \in FrameErrors)
           => (LoopReturned /\ pret = last.err)

\* The part of C31 the code keeps: a stream that ends after the first byte
\* of a length prefix, or with a frame in error, ends the loop with an error.
LoopErrorsSurfaced ==
    /\ (LoopReturned /\ cstate = "eof" /\ LeftOver = 1) => pret = ErrUnexpectedEOF
    /\ (session /\ last.src = "conn" /\ last.err \in FrameErrors)
           => (LoopReturned /\ pret = last.err)

\* a turn of the session loop has read a frame
LoopTurn == ppc = "handleSession" /\ last' # last /\ last'.err = ""

\* frames the loop has no use for: a type other than DATA, PADDING_CTRL and
\* TIMING_CTRL, and a DATA frame when Process was given no dispatcher
Dropped(frame) ==
    \/ frame.Type > FrameTypeTimingCtrl
    \/ frame.Type = FrameTypeData /\ dispatcher.nil

\* C32: a turn of the session loop that reads a frame of unknown type, or a
\* DATA frame while there is no dispatcher, writes nothing to the client,
\* dispatches nothing, leaves the profile and the connection as they were
\* and stays in the loop, past the frame; the frame's counter has become
\* the session's replay counter.
C32_DroppedFrameHasNoEffect ==
    [][(LoopTurn /\ Dropped(last'.frame)) =>
          /\ wrote' = wrote
          /\ links' = links
          /\ UNCHANGED <<profVars, padCall, writeNonceCount, connClosed>>
          /\ ~connClosed'
          /\ ppc' = "handleSession"
          /\ pret' = ""
          /\ rdpos' > rdpos
          /\ readSeen'
          /\ readNonceCount' = last'.counter]_vars

\* C32 witness: the loop took a frame of type 9 and then a DATA frame with
\* no dispatcher, and is still reading; the client got the 200 reply only.
C32_Witness ==
    /\ ppc = "handleSession"
    /\ dispatcher.nil
    /\ cframes[3] = Seal(SessionKey, makeNonce(Zeros(NonceSize), 0),
                         BCat(B(<<9>>), B(<<1>>)))
    /\ acc = <<0, 1>>
    /\ last.frame.Type = FrameTypeData
    /\ readNonceCount = 1
    /\ Len(wrote) = 2
    /\ ~connClosed

\* the loop holds the profile New gave the handler
HoldsDefaultProfile ==
    /\ PacketSizes = DefaultProfile.PacketSizes
    /\ Delays = DefaultProfile.Delays

\* C33: a turn of the session loop that reads a PADDING_CTRL or TIMING_CTRL
\* frame makes one ApplyControlFrame call on the handler's default profile
\* (a PADDING_CTRL frame of 2 bytes or more sets the size override to its
\* first two bytes, a TIMING_CTRL frame carrying 42 sets the delay override
\* to 42 ms), writes nothing to the client, dispatches nothing and stays in
\* the loop, past the frame.
C33_ControlFrameAppliedSilently ==
    [][(LoopTurn /\ last'.frame.Type \in {FrameTypePaddingCtrl,
                                          FrameTypeTimingCtrl}) =>
          LET f == last'.frame IN
          /\ HoldsDefaultProfile
          /\ hist' = Append(hist, [op |-> "ApplyControlFrame",
                                   frameType |-> f.Type, payload |-> f.Payload])
          /\ (f.Type = FrameTypePaddingCtrl /\ BLen(f.Payload) >= 2) =>
                /\ nextPacketSize' = 256 * Plain(f.Payload)[1] + Plain(f.Payload)[2]
                /\ nextDelay' = nextDelay
          /\ (f.Type = FrameTypeTimingCtrl /\ f.Payload = Millis42) =>
                /\ nextDelay' = Ms(42)
                /\ nextPacketSize' = nextPacketSize
          /\ wrote' = wrote
          /\ links' = links
          /\ UNCHANGED <<PacketSizes, Delays, padCall, writeNonceCount, wire>>
          /\ ppc' = "handleSession"
          /\ rdpos' > rdpos]_vars

\* C33 witness: the loop applied a TIMING_CTRL frame and went on to the DATA
\* frame that follows, which a link answered with 2 bytes; the three writes
\* of that reply are all that was written after the 200 reply.
C33_Witness ==
    /\ ppc = "handleSession"
    /\ hist # <<>>
    /\ hist[1].op = "ApplyControlFrame"
    /\ hist[1].frameType = FrameTypeTimingCtrl
    /\ acc = <<0, 1>>
    /\ Len(links) = 1
    /\ links[1].rb.err = ""
    /\ BLen(links[1].rb.mb) = 2
    /\ Len(wrote) = 5

\* the read-back of a link yielded data
Yielded(l) == l.err = "" /\ l.rb.err = "" /\ BLen(l.rb.mb) > 0

\* the sizes the default profile samples
DefaultSizes == {DefaultProfile.PacketSizes[i].Size :
                     i \in DOMAIN DefaultProfile.PacketSizes}

\* the log entry h and the writes ws are those of one morphed DATA frame
\* carrying data, padded or cut to a size of the default profile or to the
\* override that was pending
OneMorphedReply(h, ws, data, pending) ==
    /\ h.op = "WriteFrameWithMorphing"
    /\ h.profile = "set"
    /\ h.type = FrameTypeData
    /\ h.payload = data
    /\ Len(h.sizes) = 1
    /\ h.sizes[1] = IF pending > 0 THEN pending ELSE h.sizes[1]
    /\ pending = 0 => h.sizes[1] \in DefaultSizes
    /\ BLen(h.morphed) = h.sizes[1]
    /\ BTake(h.morphed, Min(BLen(data), h.sizes[1]))
           = BTake(data, Min(BLen(data), h.sizes[1]))
    /\ Len(ws) <= 3
    /\ \A i \in DOMAIN ws : ws[i].kind = "frame"
    /\ h.err = "" =>
          /\ Len(ws) = 3
          /\ Open(SessionKey, Pieces(<<ws[2].seg>>, 0, NonceSize),
                  Pieces(<<ws[3].seg>>, 0, SegLen(ws[3].seg)))
                 = [ok |-> TRUE,
                    pt |-> BCat(B(<<FrameTypeData>>), h.morphed)]

----------------------------------------------------------------------------
(* Properties of the fallback relay. *)

\* handleFallback has returned from the relay
RelayReturned ==
    psite \in {"handleFallback: relay error", "handleFallback: relay done"}

C38_TargetBytesReachPeer ==
    /\ RelayedToClient(wrote) = Take(tresp, p2pos)
    /\ (p2 = "done" /\ cstate # "reset") =>
           RelayedToClient(wrote) = Take(tresp, tsent)

----------------------------------------------------------------------------
(* Properties of one profile called by several goroutines.                 *)

\* the calls of the profile's methods that returned, in the order of their
\* returns
ProfileCalls == SelectSeq(hist, LAMBDA e : e.op \in SizeOps \cup DelayOps)

\* the calls h[i..] are what one caller alone, making them one after the
\* other from the overrides size and delay, is returned
RECURSIVE Linear(_, _, _, _)
Linear(h, i, size, delay) ==
    IF i > Len(h) THEN TRUE
    ELSE LET e == h[i]
         IN  CASE e.op = "SetNextPacketSize" -> Linear(h, i + 1, e.arg, delay)
               [] e.op = "SetNextDelay" -> Linear(h, i + 1, size, e.arg)
               [] e.op = "GetPacketSize" ->
                    LET one == SamplePacketSize(PacketSizes, size, e.arg)
                    IN  e.ret = one.ret /\ Linear(h, i + 1, one.next, delay)
               [] e.op = "GetDelay" ->
                    LET one == SampleDelay(Delays, delay, e.arg)
                    IN  e.ret = one.ret /\ Linear(h, i + 1, size, one.next)

\* the goroutines between Lock and Unlock
InBody == {g \in Goroutines : gor[g].pc \in {"set", "test", "clear", "Unlock"}}

\* C36: concurrent Set and Get calls on one profile take effect one at a
\* time: at most one goroutine is inside a method body, the calls return
\* what they would return made one after the other in the order of their
\* returns, so that an override set once is returned by at most one Get,
\* and the Get that reads an override clears it before any other call acts.
C36_CallsAreSerialized ==
    /\ Cardinality(InBody) <= 1
    /\ Linear(ProfileCalls, 1, 0, Zeros(8))
    /\ \A g \in Goroutines :
         gor[g].pc = "clear" =>
            /\ mu = g
            /\ gor[g].op = "GetPacketSize" => nextPacketSize = gor[g].ret
            /\ gor[g].op = "GetDelay" => nextDelay = gor[g].ret

\* C36 witness: two goroutines are in GetPacketSize at once while the
\* override 1234 was pending: one has read and cleared it and is about to
\* return it, the other waits for the mutex.
C36_Witness ==
    \E g, w \in Goroutines :
        /\ g # w
        /\ gor[g].pc = "Unlock" /\ gor[g].op = "GetPacketSize"
        /\ gor[g].ret = 1234 /\ nextPacketSize = 0
        /\ gor[w].pc = "Lock" /\ gor[w].op = "GetPacketSize"
        /\ Len(hist) = 1 /\ hist[1].op = "SetNextPacketSize"
\* the entries of the log strictly between i and j with an operation in ops
Between(i, j, ops) == {k \in (i + 1)..(j - 1) : hist[k].op \in ops}

\* the sampling calls at j that come after the Set at i with no other Set of
\* the same override in between
Covers(i, j, set, get) ==
    /\ hist[i].op = set /\ hist[j].op = get /\ i < j
    /\ Between(i, j, {set}) = {}

\* the Get calls of WriteFrameWithMorphing that returned a size override
OverrideGets ==
    {j \in 1..Len(hist) :
        /\ hist[j].op = "GetPacketSize"
        /\ hist[j].within = "WriteFrameWithMorphing"
        /\ \E i \in 1..Len(hist) :
              /\ Covers(i, j, "SetNextPacketSize", "GetPacketSize")
              /\ hist[i].arg > 0
              /\ Between(i, j, {"GetPacketSize"}) = {}}

\* the frames whose target size is the one returned by the call at j: the
\* WriteFrame entries of the same goroutine that follow it before the
\* goroutine's next GetPacketSize
FramesOf(j) ==
    {k \in (j + 1)..Len(hist) :
        /\ hist[k].op = "WriteFrame" /\ hist[k].g = hist[j].g
        /\ \A m \in Between(j, k, {"GetPacketSize"}) : hist[m].g # hist[j].g}

\* the goroutine whose call is logged at j is past the write of its frame
PastWrite(j) ==
    \/ \E k \in (j + 1)..Len(hist) : hist[k].g = hist[j].g
    \/ gor[hist[j].g].pc # "write"

\* C40 as stated: an override consumed by WriteFrameWithMorphing on any
\* connection gives its size to exactly one written frame.
C40_OverrideShapesExactlyOneFrame ==
    \A j \in OverrideGets :
        PastWrite(j) =>
            Cardinality({k \in FramesOf(j) : hist[k].within = ""
                                             /\ hist[k].ret = hist[j].ret}) = 1

\* C40 amended: the profile is shared, so after a control frame on one
\* connection set an override, the first sampling call of that kind on any
\* connection returns it and every later one, until the next control frame,
\* returns a sampled value; the size returned to WriteFrameWithMorphing is
\* the padded size of the one frame it then tries to write, so an override
\* shapes at most one written frame: exactly one when that write succeeds
\* and none when it fails, the override being spent either way.
C40_OverrideShapesAtMostOneFrame ==
    /\ \A i, j \in 1..Len(hist) :
          /\ Covers(i, j, "SetNextPacketSize", "GetPacketSize")
                 /\ hist[i].arg > 0 =>
                IF Between(i, j, {"GetPacketSize"}) = {}
                THEN hist[j].ret = hist[i].arg
                ELSE hist[j].ret
                        = SamplePacketSize(PacketSizes, 0, hist[j].arg).ret
          /\ Covers(i, j, "SetNextDelay", "GetDelay")
                 /\ I64Positive(hist[i].arg) =>
                IF Between(i, j, {"GetDelay"}) = {}
                THEN hist[j].ret = hist[i].arg
                ELSE hist[j].ret
                        = SampleDelay(Delays, Zeros(8), hist[j].arg).ret
    /\ \A j \in OverrideGets :
          /\ Cardinality(FramesOf(j)) <= 1
          /\ PastWrite(j) => Cardinality(FramesOf(j)) = 1
          /\ \A k \in FramesOf(j) :
                /\ hist[k].arg = hist[j].ret
                /\ hist[k].ret = hist[j].ret
                /\ hist[k].within \in {"", ErrShortWrite}

\* C40 witness: a control frame on one connection set the size override
\* 1234; the other connection's reply frame was padded to 1234 bytes and
\* written, and the reply frame of the first connection, sampled afterwards,
\* was written with a size of the distribution.
C40_Witness ==
    \E i, j, k, m, n \in 1..Len(hist) :
        /\ i < j /\ j < k /\ j < m /\ m < n
        /\ hist[i].op = "SetNextPacketSize" /\ hist[i].arg = 1234
        /\ j \in OverrideGets /\ hist[j].g # hist[i].g
        /\ k \in FramesOf(j) /\ hist[k].ret = 1234 /\ hist[k].within = ""
        /\ hist[m].op = "GetPacketSize" /\ hist[m].g = hist[i].g
        /\ n \in FramesOf(m) /\ hist[n].ret # 1234 /\ hist[n].within = ""
        /\ hist[n].ret = hist[m].ret

----------------------------------------------------------------------------
(* Properties of the handshake reply. *)

\* the status lines among what was written to the client
StatusLines ==
    {i \in 1..Len(wrote) : wrote[i].kind = "header"}

Has200 == \E i \in StatusLines : wrote[i].text[1] = "HTTP/1.1 200"

Has403 == \E i \in StatusLines : wrote[i].text[1] = "HTTP/1.1 403 Forbidden"

\* ReadFrame has been called on the connection
FramesRead == last.src = "conn" \/ Len(acc) > 0 \/ readSeen

\* C37: the handshake writes at most one HTTP response, a 200 or a 403; the
\* 200 only for a timestamp inside the window and a configured UUID; the
\* session exists and frames are read only when the 200 and its body have
\* been written; once a 403 is written Process has returned with the
\* connection closed, and no step writes to or reads from the connection
\* any more.
C37_OneHandshakeReply ==
    /\ [](/\ Cardinality(StatusLines) <= 1
          /\ ~(Has200 /\ Has403)
          /\ StatusLines # {} => (1 \in StatusLines /\ (Has200 \/ Has403))
          /\ Has200 => /\ ~TimestampStale(hs.Timestamp, Now)
                         /\ authenticateUser(clients, hs.UserID)
          /\ session => /\ Has200
                        /\ Len(wrote) >= 2 /\ wrote[2].kind = "json"
          /\ FramesRead => session
          /\ Has403 => /\ ppc = "returned" /\ connClosed
                         /\ ~session /\ ~FramesRead)
    /\ [][Has403 => /\ wrote' = wrote
                      /\ rdpos' = rdpos
                      /\ UNCHANGED <<sessVars, session, links, ppc, pret>>]_vars

\* C37 witness: a handshake of an unknown user was answered with the 403
\* header and body, Process has returned and the connection is closed, with
\* frames of the client arrived behind the handshake and left unread.
C37_Witness ==
    /\ Has403
    /\ Len(wrote) = 2 /\ wrote[2].text = ErrorBody("forbidden")
    /\ ppc = "returned" /\ connClosed
    /\ LeftOver > 0
    /\ ~FramesRead

----------------------------------------------------------------------------
(* Properties of the hand-over from the handshake parser to the loop. *)

\* handshakes in either layout of a configured user with a fresh timestamp
WellFormedHandshakes ==
    { MagicPacket(U1, Now, 0, <<>>),
      MagicPacket(U1, Now, 3, <<97, 98, 99>>),
      PostRequest(ContentLengthName, DataBody(RawPacket(U1, Now, <<>>))) }

\* the returns of Process that lie past the handshake parsers
PastParserSites ==
    {"processHandshake: invalid timestamp", "processHandshake: forbidden",
     "processHandshake: write", "handleSession: io.EOF",
     "handleSession: error"}

\* the parser handed a handshake to processHandshake, or the loop runs and
\* has not read yet
JustParsed ==
    \/ ppc = "processHandshake"
    \/ ppc = "handleSession" /\ ~FramesRead

\* the loop has taken exactly one frame
FirstFrameTaken ==
    session /\ Len(acc) = 1 /\ last.src = "conn" /\ last.err = ""

\* The magic path of C39, which the code keeps: the parser consumes the
\* 4 + 74 + policy_len bytes of the handshake, and the first frame the loop
\* takes is the client's first frame, read from the next byte on.
MagicPathKeepsBytes ==
    isReflexMagic(cstream) =>
        /\ JustParsed => /\ rdpos = Len(cstream)
                         /\ rdpos = 4 + 74 + Len(hs.PolicyReq)
        /\ FirstFrameTaken =>
              /\ rdpos = Len(cstream) + SegStart(cframes, 4)
              /\ last.counter = 0

\* C39: for a handshake in either layout, once it has arrived whole the
\* parser consumes exactly its bytes (4 + 74 + policy_len, or the headers
\* and the Content-Length body bytes) and does not fail, and the first frame
\* the loop takes is the client's first frame, read from the byte that
\* follows the handshake.
C39_BytesAfterHandshakeKept ==
    (cstream \in WellFormedHandshakes /\ csent >= Len(cstream)) =>
        /\ JustParsed => rdpos = Len(cstream)
        /\ ppc = "returned" => psite \in PastParserSites
        /\ FirstFrameTaken =>
              /\ rdpos = Len(cstream) + SegStart(cframes, 4)
              /\ last.counter = 0

====
